---- MODULE Spec2Model ----
(***************************************************************************)
(* Client-side session / cache-synchronisation layer of the dashboard      *)
(* front end: the Token Store (src/lib/api.ts), the Session Resolver       *)
(* (src/hooks/use-session.ts), the Dashboard Guard                         *)
(* (src/components/dashboard/dashboard-layout.tsx, second variant) and the *)
(* repository cache with its mutations (src/hooks/use-repositories.ts,     *)
(* use-gitlab-repositories.ts, the Bitbucket hooks).                       *)
(*                                                                         *)
(* The specifications sharing the module:                                  *)
(*   SpecStore  arbitrary sequences of set / get / clear on the store      *)
(*   Spec       one page load of the dashboard guard with the resolver     *)
(*   SpecRepo   the 'repositories' cache entry under mutations and reads   *)
(*   SpecSelect the list a selection page offers, over all input lists     *)
(*   SpecPages  the paginated list of the repositories page                *)
(*   SpecFetch  requests leaving the client, and the sign-out actions      *)
(***************************************************************************)
EXTENDS Integers, Sequences, FiniteSets, TLC

VARIABLES
    \* ---- Token Store (src/lib/api.ts)
    localStorage,       \* browser storage: key -> value, None when the key is absent
    isBrowser,          \* typeof window !== 'undefined'
    opLog,              \* SpecStore: the calls made so far, oldest first
    lastGet,            \* SpecStore: value returned by the latest getSessionToken()
    \* ---- page, backend, network
    urlToken,           \* session_token parameter of window.location (None: absent)
    searchParams,       \* session_token as the useSearchParams() snapshot reports it
    backend,            \* how the backend answers validate-session, per bearer token
    urlReq,             \* the in-flight explicit URL-token validation request
    sessionReqs,        \* bearers of the in-flight validate-session calls of the resolver
    \* ---- DashboardLayout component state
    mounted,            \* the guard is in the tree
    tokenProcessed,     \* useState, latest value set
    isValidatingToken,  \* useState, latest value set
    sessionReady,       \* useState, latest value set
    vpc,                \* position of validateAndStoreToken: idle / fetching / sleeping
    timer100,           \* setTimeout(() => setSessionReady(true), 100) is pending
    rendered,           \* what the latest committed render saw and returned
    effectsDue,         \* effects of the latest commit that have not run yet
    \* ---- React Query entry ['session'] and its observers
    sq,                 \* query state
    guardObs,           \* observer created by DashboardLayout's useSession(sessionReady)
    pageObs,            \* observer created by RepositoriesPage's useSession()
    \* ---- history
    resolverCalls,      \* validate-session requests issued by the resolver's queryFn
    urlValidations,     \* explicit URL-token validations started
    loginNavs,          \* router.push('/login') calls
    verdictSeq,         \* resolver runs settled so far
    invalidNavs,        \* per settled run: redirects issued by the invalid-session effect
    hist,               \* facts of the run the properties refer to
    lastEvent,          \* the latest browser event delivered
    \* ---- 'repositories' cache entry and mutations
    installed,          \* backend: ids of the installed repositories
    repositories,       \* query state of ['repositories']
    repoFetch,          \* the in-flight GET /api/v1/repositories/, if any
    repoObservers,      \* mounted call sites of useRepositories
    mut,                \* per mutation hook: its run
    removedOk,          \* ids whose removal the client has seen succeed
    visible,            \* document.visibilityState is 'visible'
    ui,                 \* remove dialog of the repositories page, feedback shown
    \* ---- selection pages
    sel,                \* a selection page: its inputs and the list it offers
    \* ---- repositories page
    pg,                 \* pagination: list length, current page, what was rendered
    \* ---- outgoing requests
    req,                \* the latest request handed to fetch()
    \* ---- sign-out
    so,                 \* the sign-out action under way: handler, position, outcome
    \* ---- /auth/callback
    cb,                 \* the run of the callback effect
    \* ---- available lists of the selection pages
    avail               \* per provider: cache entry and refresh mutation

storeVars == <<localStorage, isBrowser, opLog, lastGet>>
guardVars == <<urlToken, searchParams, backend, urlReq, sessionReqs, mounted,
               tokenProcessed, isValidatingToken, sessionReady, vpc, timer100,
               rendered, effectsDue, sq, guardObs, pageObs, resolverCalls,
               urlValidations, loginNavs, verdictSeq, invalidNavs, hist, lastEvent>>
repoVars == <<installed, repositories, repoFetch, repoObservers, mut, removedOk, visible,
              ui>>
extVars == <<sel, pg, req, so, cb, avail>>
vars == <<storeVars, guardVars, repoVars, extVars>>

(***************************************************************************)
(* Values and bounds                                                       *)
(***************************************************************************)
None == "none"              \* JS null / undefined
Empty == ""                 \* the empty string, a falsy token
Tokens == {"S", "T"}        \* S: a token left in storage earlier; T: the URL token
SESSION_TOKEN_KEY == "session_token"
StorageKeys == {SESSION_TOKEN_KEY, "other"}

MaxOps == 4                 \* SpecStore: calls per behaviour
MaxCount == 2               \* history counters saturate here
MaxUrlValidations == 2      \* explicit URL-token validations per page load
MaxRuns == 2                \* resolver runs settled per page load

Bump(n) == IF n < MaxCount THEN n + 1 ELSE n

(***************************************************************************)
(* Token Store                                                             *)
(***************************************************************************)
\* localStorage.setItem(SESSION_TOKEN_KEY, token), guarded by typeof window
setSessionToken_WrongKey(ls, browser, token) ==
    IF browser THEN [ls EXCEPT !["other"] = token] ELSE ls

setSessionToken(ls, browser, token) ==
    IF browser THEN [ls EXCEPT ![SESSION_TOKEN_KEY] = token] ELSE ls

\* localStorage.getItem(SESSION_TOKEN_KEY); null outside the browser
getSessionToken(ls, browser) ==
    IF browser THEN ls[SESSION_TOKEN_KEY] ELSE None

\* localStorage.removeItem(SESSION_TOKEN_KEY)
clearSessionToken(ls, browser) ==
    IF browser THEN [ls EXCEPT ![SESSION_TOKEN_KEY] = None] ELSE ls

\* JS truthiness of a token: null and "" are falsy
Truthy(t) == t /= None /\ t /= Empty

(***************************************************************************)
(* SpecStore: every finite sequence of set / get / clear                   *)
(***************************************************************************)
TokenValues == Tokens \cup {Empty}

StoreSet(x) ==
    /\ Len(opLog) < MaxOps
    /\ localStorage' = setSessionToken(localStorage, isBrowser, x)
    /\ opLog' = Append(opLog, [op |-> "set", arg |-> x])
    /\ UNCHANGED <<isBrowser, lastGet, guardVars, repoVars, extVars>>

StoreGet ==
    /\ Len(opLog) < MaxOps
    /\ lastGet' = getSessionToken(localStorage, isBrowser)
    /\ opLog' = Append(opLog, [op |-> "get", arg |-> None])
    /\ UNCHANGED <<isBrowser, localStorage, guardVars, repoVars, extVars>>

StoreClear ==
    /\ Len(opLog) < MaxOps
    /\ localStorage' = clearSessionToken(localStorage, isBrowser)
    /\ opLog' = Append(opLog, [op |-> "clear", arg |-> None])
    /\ UNCHANGED <<isBrowser, lastGet, guardVars, repoVars, extVars>>

\* Reference cell: the value the latest set / clear of the log left behind
IsWrite(e) == e.op \in {"set", "clear"}
HasWrite(log) == \E i \in 1..Len(log) : IsWrite(log[i])
RECURSIVE LastWritten(_)
LastWritten(log) ==
    IF log = <<>> THEN None
    ELSE LET e == log[Len(log)] IN
         IF e.op = "set" THEN e.arg
         ELSE IF e.op = "clear" THEN None
         ELSE LastWritten(SubSeq(log, 1, Len(log) - 1))

(***************************************************************************)
(* Outgoing requests: apiFetch (src/lib/api.ts) and the call sites that    *)
(* call fetch() themselves                                                 *)
(***************************************************************************)
\* An Authorization header is recorded by the text after "Bearer ": a token,
\* Empty, or "null" for the text `Bearer null`; None: no such header.
\* credentials is 'include', 'omit', or "same-origin", the default of fetch().
Endpoints == {"validate-session", "logout", "org-id", "repositories",
              "mutation", "install"}

\* options a caller hands to apiFetch; None: the key is not given
CallerOptions == [credentials : {None, "omit"}, authorization : {None, "T"}]
NoOptions == [credentials |-> None, authorization |-> None]

\* getApiHeaders(): Content-Type always, Authorization when the token is truthy
getApiHeaders_NoCheck(ls, browser) ==
    LET token == getSessionToken(ls, browser)
    IN [contentType |-> "application/json",
        authorization |-> IF token = None THEN "null" ELSE token]

getApiHeaders(ls, browser) ==
    LET token == getSessionToken(ls, browser)
    IN [contentType |-> "application/json",
        authorization |-> IF Truthy(token) THEN token ELSE None]

\* the merge with the default headers winning over the caller's
apiFetch_DefaultsWin(ls, browser, endpoint, options) ==
    LET defaults == getApiHeaders(ls, browser)
    IN [endpoint |-> endpoint, via |-> "apiFetch",
        credentials |-> IF options.credentials /= None THEN options.credentials
                        ELSE "include",
        contentType |-> defaults.contentType,
        authorization |-> IF defaults.authorization /= None
                          THEN defaults.authorization
                          ELSE options.authorization,
        callerAuth |-> options.authorization /= None]

\* apiFetch(endpoint, options): { ...defaultOptions, ...options, headers: {
\* ...defaultOptions.headers, ...options.headers } }
apiFetch(ls, browser, endpoint, options) ==
    LET defaults == getApiHeaders(ls, browser)
    IN [endpoint |-> endpoint, via |-> "apiFetch",
        credentials |-> IF options.credentials /= None THEN options.credentials
                        ELSE "include",
        contentType |-> defaults.contentType,
        authorization |-> IF options.authorization /= None
                          THEN options.authorization
                          ELSE defaults.authorization,
        callerAuth |-> options.authorization /= None]

\* no request under way
NoApiRequest == [endpoint |-> None, via |-> None, credentials |-> None,
                 contentType |-> None, authorization |-> None,
                 callerAuth |-> FALSE]

\* no URL-token validation under way
NoUrlValidation == [tokenFromUrl |-> None, request |-> NoApiRequest]

\* validateAndStoreToken: apiFetch('/api/v1/login/validate-session', {headers:
\* {'Authorization': `Bearer ${tokenFromUrl}`}})
UrlValidationRequest(ls, browser, tokenFromUrl) ==
    apiFetch(ls, browser, "validate-session",
             [credentials |-> None, authorization |-> tokenFromUrl])

(***************************************************************************)
(* Backend: GET /api/v1/login/validate-session                             *)
(***************************************************************************)
\* valid: 200 {valid: true, ...}; invalid: 200 {valid: false}; badshape: 200
\* without a boolean valid; badfield: 200 {valid: true, user_id: "7"};
\* reject: 401; throw: fetch rejects
Modes == {"valid", "invalid", "badshape", "badfield", "reject", "throw"}
\* response.ok taken for true on every answer that arrives
ResponseOk_AnyStatus(m) == m /= "throw"

\* response.ok: the status is 2xx
ResponseOk(m) == m \in {"valid", "invalid", "badshape", "badfield"}

\* the JSON body of a 200 answer, each field by the type of its value
\* ("missing": the key is absent)
BodyOf(m) ==
    CASE m = "valid" ->
            [valid |-> "boolean:true", user_id |-> "number", login |-> "string",
             email |-> "null", vcs |-> "string"]
      [] m = "invalid" ->
            [valid |-> "boolean:false", user_id |-> "missing", login |-> "missing",
             email |-> "missing", vcs |-> "missing"]
      [] m = "badfield" ->
            [valid |-> "boolean:true", user_id |-> "string", login |-> "string",
             email |-> "string", vcs |-> "string"]
      [] OTHER ->
            [valid |-> "missing", user_id |-> "number", login |-> "string",
             email |-> "string", vcs |-> "string"]

\* sessionDataSchema.safeParse(data).success
sessionDataSchema_ValidOnly(body) == body.valid \in {"boolean:true", "boolean:false"}

sessionDataSchema(body) ==
    /\ body.valid \in {"boolean:true", "boolean:false"}
    /\ body.user_id \in {"number", "missing"}
    /\ body.login \in {"string", "missing"}
    /\ body.email \in {"string", "null", "missing"}
    /\ body.vcs \in {"string", "missing"}

\* what the queryFn makes of an answer: the parsed data, or a thrown error
QueryFnOk(m) == ResponseOk(m) /\ sessionDataSchema(BodyOf(m))
QueryFnData(m) == IF BodyOf(m).valid = "boolean:true" THEN "valid" ELSE "invalid"

(***************************************************************************)
(* Session Resolver: useQuery({queryKey: ['session'], ...})                *)
(***************************************************************************)
NoObserver == [subscribed |-> FALSE, enabled |-> FALSE]
FreshQuery == [status |-> "pending", data |-> None, error |-> 0,
               fetchStatus |-> "idle", stale |-> FALSE]

\* enabled: enabled && hasToken
SessionEnabled_IgnoresFlag(enabled, hasToken) == hasToken

SessionEnabled(enabled, hasToken) == enabled /\ hasToken

\* staleTime: 2 minutes; an entry without data is always stale
IsStale(q) == q.data = None \/ q.stale

\* refetchOnMount: false: a mounting observer fetches only when there is no data
ShouldFetchOnMount(q, enabled) == enabled /\ q.data = None

\* an observer whose enabled option turns true fetches when the entry is stale
ShouldFetchOptionally(q, prevEnabled, enabled) ==
    enabled /\ ~prevEnabled /\ IsStale(q)

\* refetchOnReconnect: true (query client default), for enabled observers of a
\* stale entry
ShouldFetchOnReconnect(q, obs) == obs.subscribed /\ obs.enabled /\ IsStale(q)

\* refetchOnWindowFocus: false
ShouldFetchOnWindowFocus(q, obs) == FALSE

\* one request per key: a fetch is started only when none is in flight
CanStartFetch_NoDedup(q) == TRUE

CanStartFetch(q) == q.fetchStatus = "idle"

\* the model follows at most MaxRuns resolver runs
RunBudget(c) == c.seq + Len(c.reqs) < MaxRuns

\* state of the entry when a fetch starts
FetchState(q) ==
    [q EXCEPT !.fetchStatus = "fetching",
              !.status = IF q.data = None THEN "pending" ELSE @,
              !.error = IF q.data = None THEN 0 ELSE @]

\* retry: false: the first failure is the result; the data of an earlier
\* success stays in the entry
SettleError(q, n) ==
    [q EXCEPT !.status = "error", !.error = n, !.fetchStatus = "idle"]

SettleSuccess(q, d) ==
    [status |-> "success", data |-> d, error |-> 0,
     fetchStatus |-> "idle", stale |-> FALSE]

\* queryFn without its token check: the request is sent in any case
Fetch_NoGuard(c, ls) ==
    IF ~(CanStartFetch(c.q) /\ RunBudget(c)) THEN c
    ELSE LET token == getSessionToken(ls, isBrowser) IN
         [c EXCEPT !.q = FetchState(c.q), !.reqs = Append(c.reqs, token),
                   !.calls = Bump(c.calls), !.ran = TRUE]

\* queryFn up to its await: without a stored token it throws before any
\* request, otherwise apiFetch sends the request with the stored bearer.
\* c = [q, reqs, calls, seq, ran]
Fetch(c, ls) ==
    IF ~(CanStartFetch(c.q) /\ RunBudget(c)) THEN c
    ELSE LET token == getSessionToken(ls, isBrowser) IN
         IF ~Truthy(token)
         THEN [c EXCEPT !.q = SettleError(c.q, c.seq + 1), !.seq = c.seq + 1,
                        !.ran = TRUE]
         ELSE [c EXCEPT !.q = FetchState(c.q), !.reqs = Append(c.reqs, token),
                        !.calls = Bump(c.calls), !.ran = TRUE]

FetchCtx == [q |-> sq, reqs |-> sessionReqs, calls |-> resolverCalls,
             seq |-> verdictSeq, ran |-> hist.resolverRan]

\* what useQuery returns for the observer: the entry's state, shown as already
\* fetching in the render that is about to start the fetch
QueryResult(q, obs, enabled) ==
    LET willFetch ==
            /\ IF obs.subscribed
               THEN ShouldFetchOptionally(q, obs.enabled, enabled)
               ELSE ShouldFetchOnMount(q, enabled)
            /\ RunBudget(FetchCtx)
        qq == IF willFetch THEN FetchState(q) ELSE q
    IN [isLoading |-> qq.fetchStatus = "fetching" /\ qq.status = "pending",
        error |-> qq.error, data |-> qq.data]

(***************************************************************************)
(* Dashboard Guard: DashboardLayout                                        *)
(***************************************************************************)
NotRendered ==
    [committed |-> FALSE, tokenProcessed |-> FALSE, isValidatingToken |-> FALSE,
     sessionReady |-> FALSE, searchParams |-> None, hasToken |-> FALSE,
     enabled |-> FALSE, isLoading |-> FALSE, error |-> 0, sessionData |-> None,
     seq |-> 0, view |-> "none"]

\* the three return statements of the component
GuardView(tp, iv, isLoading, sessionData) ==
    IF ~tp \/ iv \/ isLoading THEN "loading"
    ELSE IF sessionData /= "valid" THEN "redirecting"
    ELSE "children"

\* dependency lists of the two effects: an effect runs after the first commit
\* and after every commit in which one of its dependencies changed
TokenEffectDue(r, n) ==
    \/ ~r.committed
    \/ <<r.searchParams, r.tokenProcessed, r.isValidatingToken>>
         /= <<n.searchParams, n.tokenProcessed, n.isValidatingToken>>

InvalidEffectDue_EveryRender(r, n) == TRUE

InvalidEffectDue(r, n) ==
    \/ ~r.committed
    \/ <<r.error, r.tokenProcessed, r.isLoading, r.sessionData>>
         /= <<n.error, n.tokenProcessed, n.isLoading, n.sessionData>>

\* condition of the invalid-session effect: either branch clears and redirects
InvalidSession(r) ==
    \/ r.error /= 0 /\ r.tokenProcessed
    \/ r.tokenProcessed /\ ~r.isLoading /\ r.sessionData /= "valid"

\* the snapshot a render of the current state would commit
NextRender ==
    LET hasToken == Truthy(getSessionToken(localStorage, isBrowser))
        enabled == SessionEnabled(sessionReady, hasToken)
        res == QueryResult(sq, guardObs, enabled)
    IN [committed |-> TRUE, tokenProcessed |-> tokenProcessed,
        isValidatingToken |-> isValidatingToken, sessionReady |-> sessionReady,
        searchParams |-> searchParams, hasToken |-> hasToken, enabled |-> enabled,
        isLoading |-> res.isLoading, error |-> res.error, sessionData |-> res.data,
        seq |-> verdictSeq,
        view |-> GuardView(tokenProcessed, isValidatingToken, res.isLoading, res.data)]

\* React renders again when component state, the search params or the
\* observer's result changed; a change of localStorage alone triggers nothing
NeedsRender ==
    LET n == NextRender IN
    \/ ~rendered.committed
    \/ <<n.tokenProcessed, n.isValidatingToken, n.sessionReady, n.searchParams>>
         /= <<rendered.tokenProcessed, rendered.isValidatingToken,
              rendered.sessionReady, rendered.searchParams>>
    \/ <<n.isLoading, n.error, n.sessionData>>
         /= <<rendered.isLoading, rendered.error, rendered.sessionData>>

Render ==
    /\ mounted /\ effectsDue = {} /\ NeedsRender
    /\ LET n == NextRender IN
       /\ rendered' = n
       /\ effectsDue' =
            (IF TokenEffectDue(rendered, n) THEN {"token"} ELSE {})
            \cup (IF ~guardObs.subscribed \/ guardObs.enabled /= n.enabled
                  THEN {"observer"} ELSE {})
            \cup (IF InvalidEffectDue(rendered, n) THEN {"invalid"} ELSE {})
       /\ pageObs' = IF n.view = "children" THEN pageObs ELSE NoObserver
    /\ UNCHANGED <<storeVars, repoVars, extVars, urlToken, searchParams, backend, urlReq,
                   sessionReqs, mounted, tokenProcessed, isValidatingToken,
                   sessionReady, vpc, timer100, sq, guardObs, resolverCalls,
                   urlValidations, loginNavs, verdictSeq, invalidNavs, hist,
                   lastEvent>>

\* the passive effects of the latest commit, in hook order: the token effect,
\* useSession's observer update, the invalid-session effect
FlushEffects ==
    /\ mounted /\ effectsDue /= {}
    /\ LET r == rendered
           tokenDue == "token" \in effectsDue
           startValidation ==
               /\ tokenDue /\ r.searchParams /= None
               /\ ~r.tokenProcessed /\ ~r.isValidatingToken
               /\ urlValidations < MaxUrlValidations
           noToken == tokenDue /\ r.searchParams = None
           observerFetch ==
               /\ "observer" \in effectsDue
               /\ IF guardObs.subscribed
                  THEN ShouldFetchOptionally(sq, guardObs.enabled, r.enabled)
                  ELSE ShouldFetchOnMount(sq, r.enabled)
           c == IF observerFetch THEN Fetch(FetchCtx, localStorage) ELSE FetchCtx
           redirect == "invalid" \in effectsDue /\ InvalidSession(r)
       IN /\ isValidatingToken' = IF startValidation THEN TRUE ELSE isValidatingToken
          /\ urlReq' = IF startValidation
                       THEN [tokenFromUrl |-> r.searchParams,
                             request |-> UrlValidationRequest(localStorage, isBrowser,
                                                              r.searchParams)]
                       ELSE urlReq
          /\ vpc' = IF startValidation THEN "fetching" ELSE vpc
          /\ urlValidations' = IF startValidation THEN urlValidations + 1
                               ELSE urlValidations
          /\ tokenProcessed' = IF noToken THEN TRUE ELSE tokenProcessed
          /\ sessionReady' = IF noToken THEN TRUE ELSE sessionReady
          /\ guardObs' = IF "observer" \in effectsDue
                         THEN [subscribed |-> TRUE, enabled |-> r.enabled]
                         ELSE guardObs
          /\ sq' = c.q
          /\ sessionReqs' = c.reqs
          /\ resolverCalls' = c.calls
          /\ verdictSeq' = c.seq
          /\ hist' = [hist EXCEPT !.resolverRan = c.ran]
          /\ localStorage' = IF redirect THEN clearSessionToken(localStorage, isBrowser)
                             ELSE localStorage
          /\ loginNavs' = IF redirect THEN Bump(loginNavs) ELSE loginNavs
          /\ invalidNavs' = IF redirect THEN [invalidNavs EXCEPT ![r.seq] = Bump(@)]
                            ELSE invalidNavs
    /\ effectsDue' = {}
    /\ UNCHANGED <<isBrowser, opLog, lastGet, repoVars, extVars, urlToken, searchParams,
                   backend, mounted, timer100, rendered, pageObs, lastEvent>>

\* success branch of validateAndStoreToken up to its await: store the token,
\* then strip the parameter with history.replaceState
StoreValidatedToken_Skipped(ls, tok) == ls

StoreValidatedToken(ls, tok) == setSessionToken(ls, isBrowser, tok)

\* the awaited apiFetch of validateAndStoreToken settles
UrlValidationResponse ==
    /\ vpc = "fetching"
    /\ IF ResponseOk(backend[urlReq.request.authorization])
       THEN /\ localStorage' = StoreValidatedToken(localStorage, urlReq.tokenFromUrl)
            /\ urlToken' = None
            /\ vpc' = "sleeping"
            /\ hist' = [hist EXCEPT !.urlVerdict = "ok",
                           !.persisted = (localStorage'[SESSION_TOKEN_KEY] =
                                              urlReq.tokenFromUrl)]
            /\ UNCHANGED <<loginNavs, isValidatingToken>>
       ELSE \* non-ok status, or the catch block: same two calls, then finally
            /\ localStorage' = clearSessionToken(localStorage, isBrowser)
            /\ loginNavs' = Bump(loginNavs)
            /\ isValidatingToken' = IF mounted THEN FALSE ELSE isValidatingToken
            /\ vpc' = "idle"
            /\ hist' = [hist EXCEPT !.urlVerdict = "fail"]
            /\ UNCHANGED urlToken
    /\ urlReq' = NoUrlValidation
    /\ UNCHANGED <<isBrowser, opLog, lastGet, repoVars, extVars, searchParams, backend,
                   sessionReqs, mounted, tokenProcessed, sessionReady, timer100,
                   rendered, effectsDue, sq, guardObs, pageObs, resolverCalls,
                   urlValidations, verdictSeq, invalidNavs, lastEvent>>

\* the 50 ms wait ends: setTokenProcessed(true), arm the 100 ms timer, finally
Timer50 ==
    /\ vpc = "sleeping"
    /\ tokenProcessed' = IF mounted THEN TRUE ELSE tokenProcessed
    /\ isValidatingToken' = IF mounted THEN FALSE ELSE isValidatingToken
    /\ timer100' = TRUE
    /\ vpc' = "idle"
    /\ UNCHANGED <<storeVars, repoVars, extVars, urlToken, searchParams, backend, urlReq,
                   sessionReqs, mounted, sessionReady, rendered, effectsDue, sq,
                   guardObs, pageObs, resolverCalls, urlValidations, loginNavs,
                   verdictSeq, invalidNavs, hist, lastEvent>>

\* setTimeout(() => setSessionReady(true), 100)
Timer100 ==
    /\ timer100
    /\ timer100' = FALSE
    /\ sessionReady' = IF mounted THEN TRUE ELSE sessionReady
    /\ UNCHANGED <<storeVars, repoVars, extVars, urlToken, searchParams, backend, urlReq,
                   sessionReqs, mounted, tokenProcessed, isValidatingToken, vpc,
                   rendered, effectsDue, sq, guardObs, pageObs, resolverCalls,
                   urlValidations, loginNavs, verdictSeq, invalidNavs, hist,
                   lastEvent>>

\* the router reports the URL that history.replaceState left
SyncSearchParams ==
    /\ mounted /\ searchParams /= urlToken
    /\ searchParams' = urlToken
    /\ UNCHANGED <<storeVars, repoVars, extVars, urlToken, backend, urlReq, sessionReqs,
                   mounted, tokenProcessed, isValidatingToken, sessionReady, vpc,
                   timer100, rendered, effectsDue, sq, guardObs, pageObs,
                   resolverCalls, urlValidations, loginNavs, verdictSeq,
                   invalidNavs, hist, lastEvent>>

\* a navigation to /login completes: the dashboard layout leaves the tree
Unmount ==
    /\ mounted /\ loginNavs > 0
    /\ mounted' = FALSE
    /\ guardObs' = NoObserver
    /\ pageObs' = NoObserver
    /\ effectsDue' = {}
    /\ UNCHANGED <<storeVars, repoVars, extVars, urlToken, searchParams, backend, urlReq,
                   sessionReqs, tokenProcessed, isValidatingToken, sessionReady,
                   vpc, timer100, rendered, sq, resolverCalls, urlValidations,
                   loginNavs, verdictSeq, invalidNavs, hist, lastEvent>>

\* a validate-session request of the resolver settles: response.ok, the schema
\* check, and the result written to the entry
SessionResponse ==
    \E i \in 1..Len(sessionReqs) :
       LET m == backend[sessionReqs[i]]
           n == verdictSeq + 1
       IN /\ sq' = IF QueryFnOk(m) THEN SettleSuccess(sq, QueryFnData(m))
                   ELSE SettleError(sq, n)
          /\ verdictSeq' = n
          /\ sessionReqs' = SubSeq(sessionReqs, 1, i - 1)
                            \o SubSeq(sessionReqs, i + 1, Len(sessionReqs))
          /\ UNCHANGED <<storeVars, repoVars, extVars, urlToken, searchParams, backend,
                         urlReq, mounted, tokenProcessed, isValidatingToken,
                         sessionReady, vpc, timer100, rendered, effectsDue,
                         guardObs, pageObs, resolverCalls, urlValidations,
                         loginNavs, invalidNavs, hist, lastEvent>>

\* two minutes pass since the entry was written
StaleTimeElapses ==
    /\ sq.data /= None /\ ~sq.stale
    /\ sq' = [sq EXCEPT !.stale = TRUE]
    /\ UNCHANGED <<storeVars, repoVars, extVars, urlToken, searchParams, backend, urlReq,
                   sessionReqs, mounted, tokenProcessed, isValidatingToken,
                   sessionReady, vpc, timer100, rendered, effectsDue, guardObs,
                   pageObs, resolverCalls, urlValidations, loginNavs, verdictSeq,
                   invalidNavs, hist, lastEvent>>

\* browser events reaching the query client
QueryEvent(ev, wanted) ==
    /\ lastEvent' = ev
    /\ LET c == IF wanted THEN Fetch(FetchCtx, localStorage) ELSE FetchCtx
       IN /\ sq' = c.q
          /\ sessionReqs' = c.reqs
          /\ resolverCalls' = c.calls
          /\ verdictSeq' = c.seq
          /\ hist' = [hist EXCEPT !.resolverRan = c.ran]
    /\ UNCHANGED <<storeVars, repoVars, extVars, urlToken, searchParams, backend, urlReq,
                   mounted, tokenProcessed, isValidatingToken, sessionReady, vpc,
                   timer100, rendered, effectsDue, guardObs, pageObs,
                   urlValidations, loginNavs, invalidNavs>>

Reconnect ==
    QueryEvent("online", ShouldFetchOnReconnect(sq, guardObs)
                         \/ ShouldFetchOnReconnect(sq, pageObs))

WindowFocus ==
    QueryEvent("focus", ShouldFetchOnWindowFocus(sq, guardObs)
                        \/ ShouldFetchOnWindowFocus(sq, pageObs))

\* the session behind a token ends on the server
SessionExpires ==
    \E t \in Tokens :
       /\ backend[t] = "valid"
       /\ backend' = [backend EXCEPT ![t] = "reject"]
       /\ hist' = [hist EXCEPT !.expired = TRUE]
       /\ UNCHANGED <<storeVars, repoVars, extVars, urlToken, searchParams, urlReq,
                      sessionReqs, mounted, tokenProcessed, isValidatingToken,
                      sessionReady, vpc, timer100, rendered, effectsDue, sq,
                      guardObs, pageObs, resolverCalls, urlValidations, loginNavs,
                      verdictSeq, invalidNavs, lastEvent>>

\* RepositoriesPage under the guard: useSession() with the default enabled = true
PageObserve(wasSubscribed) ==
    LET hasToken == Truthy(getSessionToken(localStorage, isBrowser))
        enabled == SessionEnabled(TRUE, hasToken)
        wanted == IF wasSubscribed
                  THEN ShouldFetchOptionally(sq, pageObs.enabled, enabled)
                  ELSE ShouldFetchOnMount(sq, enabled)
        c == IF wanted THEN Fetch(FetchCtx, localStorage) ELSE FetchCtx
    IN /\ pageObs' = [subscribed |-> TRUE, enabled |-> enabled]
       /\ sq' = c.q
       /\ sessionReqs' = c.reqs
       /\ resolverCalls' = c.calls
       /\ verdictSeq' = c.seq
       /\ hist' = [hist EXCEPT !.resolverRan = c.ran]
       /\ UNCHANGED <<storeVars, repoVars, extVars, urlToken, searchParams, backend, urlReq,
                      mounted, tokenProcessed, isValidatingToken, sessionReady,
                      vpc, timer100, rendered, effectsDue, guardObs,
                      urlValidations, loginNavs, invalidNavs, lastEvent>>

PageMount ==
    /\ mounted /\ rendered.view = "children" /\ effectsDue = {}
    /\ ~pageObs.subscribed
    /\ PageObserve(FALSE)

\* the page renders again (its own state, the repository poll) and hands
\* useQuery the options of that render
PageRender ==
    /\ mounted /\ pageObs.subscribed
    /\ pageObs.enabled /= Truthy(getSessionToken(localStorage, isBrowser))
    /\ PageObserve(TRUE)

\* the user moves to another dashboard page
PageUnmount ==
    /\ pageObs.subscribed
    /\ pageObs' = NoObserver
    /\ UNCHANGED <<storeVars, repoVars, extVars, urlToken, searchParams, backend, urlReq,
                   sessionReqs, mounted, tokenProcessed, isValidatingToken,
                   sessionReady, vpc, timer100, rendered, effectsDue, sq, guardObs,
                   resolverCalls, urlValidations, loginNavs, verdictSeq,
                   invalidNavs, hist, lastEvent>>

(***************************************************************************)
(* Repository cache: useQuery({queryKey: ['repositories'], ...}) and the    *)
(* mutations that invalidate it                                            *)
(***************************************************************************)
RepoIds == {"r1"}
\* useAddRepositories, useRemoveRepository, useSelectGitLabProjects,
\* useSelectBitbucketRepositories
Kinds == {"add", "remove", "gitlab", "bitbucket"}
\* call sites of useRepositories: RepositoriesPage (enablePolling: true) and a
\* selection page (no polling)
Sites == {"page", "select"}

MaxPending == 1             \* mutations under way at the same time
QueryRetry == 1             \* useRepositories: retry: 1
MutationRetry == 1          \* query client default for mutations: retry: 1

NoRepoData == [hasData |-> FALSE, data |-> {}, status |-> "pending",
               isInvalidated |-> FALSE, fetchStatus |-> "idle"]
NoFetch == [phase |-> "none", ok |-> FALSE, body |-> {}, attempt |-> 0, cause |-> "none"]
\* what asked for a fetch: a mount, the interval, the tab coming back, an
\* invalidation
Causes == {"mount", "interval", "focus", "invalidate"}
NewRequest(cause) == [phase |-> "sent", ok |-> FALSE, body |-> {}, attempt |-> 0,
                      cause |-> cause]
IdleMutation == [phase |-> "idle", arg |-> "r1", attempt |-> 0, ok |-> FALSE]

RefetchInterval_EverySite(site) == TRUE

\* enablePolling ? 10000 : false
RefetchInterval(site) == site = "page"

\* isStale: no data, or invalidated (the 2-minute staleTime is not followed)
RepoIsStale(q) == ~q.hasData \/ q.isInvalidated

\* invalidateQueries refetches with cancelRefetch: true, which drops an
\* in-flight fetch only when the entry already has data
CancelsInFlight(q) == q.hasData

\* query.fetch: join the fetch in flight, or replace it, or start one
RepoStartFetch(q, f, cancelRefetch, cause) ==
    IF q.fetchStatus = "fetching"
    THEN IF cancelRefetch /\ CancelsInFlight(q)
         THEN [q |-> q, f |-> NewRequest(cause)]
         ELSE [q |-> q, f |-> f]
    ELSE [q |-> [q EXCEPT !.fetchStatus = "fetching",
                          !.status = IF q.hasData THEN @ ELSE "pending"],
          f |-> NewRequest(cause)]

\* queryClient.invalidateQueries({queryKey: ['repositories']}): mark the entry
\* and refetch it when a call site is mounted
InvalidateRepositories(q, f, observers) ==
    LET marked == [q EXCEPT !.isInvalidated = TRUE] IN
    IF observers /= {} THEN RepoStartFetch(marked, f, TRUE, "invalidate")
    ELSE [q |-> marked, f |-> f]

\* the hooks invalidate in onSuccess only
InvalidatesRepositories_OnSettled(kind, ok) == TRUE

InvalidatesRepositories(kind, ok) == ok

\* the latest thing the user was shown for a mutation since the latest click
\* that started one, and for which mutation
Feedback == {"none", "toast", "destructive-toast", "redirect", "pushed-at-click"}
NoFeedback == [for |-> None, shown |-> "none"]

\* useState(false), useState(null); nothing shown yet
NoUi == [removeDialogOpen |-> FALSE, repositoryToRemove |-> None,
         feedback |-> NoFeedback]

\* mutation.isPending as the handlers see it: from mutate until the caller has
\* resumed
IsPending(m) == m.phase /= "idle"

\* handleRemoveRepository: if (!repositoryToRemove || isPending) return
handleRemoveStarts_NoPendingCheck(repositoryToRemove, isPending) ==
    repositoryToRemove /= None

handleRemoveStarts(repositoryToRemove, isPending) ==
    repositoryToRemove /= None /\ ~isPending

\* onOpenChange of the dialog: if (!isPending) setRemoveDialogOpen(open)
onOpenChange(current, open, isPending) == IF ~isPending THEN open ELSE current

\* what the caller of a settled mutation shows: handleRemoveRepository toasts
\* in both branches; GitLab handleInstall pushes the repositories page in
\* onSuccess and has an empty onError; Bitbucket handleInstall passes no
\* callbacks; the add hook has no caller
CallerFeedback(k, ok, before) ==
    IF k = "remove"
    THEN [for |-> k, shown |-> IF ok THEN "toast" ELSE "destructive-toast"]
    ELSE IF k = "gitlab" /\ ok THEN [for |-> k, shown |-> "redirect"]
    ELSE before

\* a call site of useRepositories mounts (the call sites are pages of
\* different routes, one is shown at a time): refetchOnMount is false, so it
\* fetches only when the entry has no data
RepoMount(site) ==
    /\ repoObservers = {}
    /\ repoObservers' = repoObservers \cup {site}
    /\ LET r == IF ~repositories.hasData
                THEN RepoStartFetch(repositories, repoFetch, FALSE, "mount")
                ELSE [q |-> repositories, f |-> repoFetch]
       IN repositories' = r.q /\ repoFetch' = r.f
    /\ UNCHANGED <<storeVars, guardVars, extVars, installed, mut, removedOk, visible, ui>>

RepoUnmount(site) ==
    /\ site \in repoObservers
    /\ repoObservers' = repoObservers \ {site}
    /\ ui' = IF site = "page"
             THEN [ui EXCEPT !.removeDialogOpen = FALSE, !.repositoryToRemove = None]
             ELSE ui
    /\ UNCHANGED <<storeVars, guardVars, extVars, installed, repositories, repoFetch, mut,
                   removedOk, visible>>

\* refetchIntervalInBackground: false: a tick of the interval fetches only
\* while the document is visible
IntervalRuns(site, tabVisible) == RefetchInterval(site) /\ tabVisible

\* the 10-second interval of a polling call site fires; a tick during a fetch
\* joins that fetch
RepoPoll ==
    /\ \E site \in repoObservers : IntervalRuns(site, visible)
    /\ repositories.fetchStatus = "idle"
    /\ LET r == RepoStartFetch(repositories, repoFetch, FALSE, "interval")
       IN repositories' = r.q /\ repoFetch' = r.f
    /\ UNCHANGED <<storeVars, guardVars, extVars, installed, repoObservers, mut, removedOk,
                   visible, ui>>

\* the tab goes to the background (visibilitychange to hidden)
TabHidden ==
    /\ visible
    /\ visible' = FALSE
    /\ UNCHANGED <<storeVars, guardVars, extVars, installed, repositories, repoFetch,
                   repoObservers, mut, removedOk, ui>>

\* the tab comes back (visibilitychange to visible); refetchOnWindowFocus: true
\* refetches a stale entry of a mounted call site
RepoFocus ==
    /\ ~visible
    /\ visible' = TRUE
    /\ LET r == IF repoObservers /= {} /\ RepoIsStale(repositories)
                THEN RepoStartFetch(repositories, repoFetch, FALSE, "focus")
                ELSE [q |-> repositories, f |-> repoFetch]
       IN repositories' = r.q /\ repoFetch' = r.f
    /\ UNCHANGED <<storeVars, guardVars, extVars, installed, repoObservers, mut, removedOk, ui>>

\* the backend answers GET /api/v1/repositories/ from its current list
RepoServe ==
    /\ repoFetch.phase = "sent"
    /\ \E ok \in BOOLEAN :
          repoFetch' = [repoFetch EXCEPT !.phase = "served", !.ok = ok,
                                         !.body = IF ok THEN installed ELSE {}]
    /\ UNCHANGED <<storeVars, guardVars, extVars, installed, repositories, repoObservers,
                   mut, removedOk, visible, ui>>

\* queryFn settles: data on ok; on failure one retry, then the error state
RepoResponse ==
    /\ repoFetch.phase = "served"
    /\ IF repoFetch.ok
       THEN /\ repositories' = [hasData |-> TRUE, data |-> repoFetch.body,
                                status |-> "success", isInvalidated |-> FALSE,
                                fetchStatus |-> "idle"]
            /\ repoFetch' = NoFetch
       ELSE IF repoFetch.attempt < QueryRetry
       THEN /\ repoFetch' = [repoFetch EXCEPT !.phase = "sent", !.attempt = repoFetch.attempt + 1]
            /\ UNCHANGED repositories
       ELSE /\ repositories' = [repositories EXCEPT !.status = "error",
                                                    !.fetchStatus = "idle"]
            /\ repoFetch' = NoFetch
    /\ UNCHANGED <<storeVars, guardVars, extVars, installed, repoObservers, mut, removedOk, visible, ui>>

Pending == {k \in Kinds : mut[k].phase /= "idle"}

\* a selection page's Install button (mutate). Bitbucket handleInstall pushes
\* the repositories page before it calls mutate
Mutate(k, id) ==
    /\ k /= "remove"
    /\ mut[k].phase = "idle" /\ Cardinality(Pending) < MaxPending
    /\ k \in {"gitlab", "bitbucket"} => "select" \in repoObservers
    /\ mut' = [mut EXCEPT ![k] = [phase |-> "sent", arg |-> id, attempt |-> 0,
                                  ok |-> FALSE]]
    /\ ui' = IF k = "bitbucket"
             THEN [ui EXCEPT !.feedback = [for |-> k, shown |-> "pushed-at-click"]]
             ELSE [ui EXCEPT !.feedback = NoFeedback]
    /\ UNCHANGED <<storeVars, guardVars, extVars, installed, repositories, repoFetch,
                   repoObservers, removedOk, visible>>

\* openRemoveDialog(repositoryId, repositoryName), from the row of a listed
\* repository
openRemoveDialog(id) ==
    /\ "page" \in repoObservers /\ repositories.hasData /\ id \in repositories.data
    /\ ~ui.removeDialogOpen
    /\ mut["remove"].phase = "idle"      \* one removal is followed at a time
    /\ ui' = [ui EXCEPT !.removeDialogOpen = TRUE, !.repositoryToRemove = id]
    /\ UNCHANGED <<storeVars, guardVars, extVars, installed, repositories, repoFetch,
                   repoObservers, mut, removedOk, visible>>

\* the dialog's Remove Repository button: handleRemoveRepository up to its
\* await
handleRemoveRepository ==
    /\ "page" \in repoObservers /\ ui.removeDialogOpen
    /\ Cardinality(Pending \ {"remove"}) < MaxPending
    /\ IF handleRemoveStarts(ui.repositoryToRemove, IsPending(mut["remove"]))
       THEN /\ mut' = [mut EXCEPT !["remove"] =
                           [phase |-> "sent", arg |-> ui.repositoryToRemove,
                            attempt |-> 0, ok |-> FALSE]]
            /\ ui' = [ui EXCEPT !.feedback = NoFeedback]
       ELSE UNCHANGED <<mut, ui>>
    /\ UNCHANGED <<storeVars, guardVars, extVars, installed, repositories, repoFetch,
                   repoObservers, removedOk, visible>>

\* the dialog asks to be closed (Cancel, Escape): onOpenChange(false)
DialogCloseRequest ==
    /\ "page" \in repoObservers /\ ui.removeDialogOpen
    /\ ui' = [ui EXCEPT !.removeDialogOpen =
                            onOpenChange(@, FALSE, IsPending(mut["remove"]))]
    /\ UNCHANGED <<storeVars, guardVars, extVars, installed, repositories, repoFetch,
                   repoObservers, mut, removedOk, visible>>

\* the backend handles the request: applies it and answers ok, or answers
\* with a failure and changes nothing
MutationServe(k) ==
    /\ mut[k].phase = "sent"
    /\ \E ok \in BOOLEAN :
          /\ mut' = [mut EXCEPT ![k].phase = "answered", ![k].ok = ok]
          /\ installed' = IF ~ok THEN installed
                          ELSE IF k = "remove" THEN installed \ {mut[k].arg}
                          ELSE installed \cup {mut[k].arg}
          /\ removedOk' = IF ok /\ k /= "remove" THEN removedOk \ {mut[k].arg}
                          ELSE removedOk
    /\ UNCHANGED <<storeVars, guardVars, extVars, repositories, repoFetch, repoObservers, visible, ui>>

\* mutationFn settles: ok runs onSuccess; a failure is retried once, then the
\* mutation ends in error
MutationResponse(k) ==
    /\ mut[k].phase = "answered"
    /\ IF ~mut[k].ok /\ mut[k].attempt < MutationRetry
       THEN /\ mut' = [mut EXCEPT ![k].phase = "sent",
                                  ![k].attempt = mut[k].attempt + 1]
            /\ UNCHANGED <<repositories, repoFetch, removedOk>>
       ELSE /\ mut' = [mut EXCEPT ![k].phase = "settled"]
            /\ removedOk' = IF mut[k].ok /\ k = "remove"
                            THEN removedOk \cup {mut[k].arg} ELSE removedOk
            /\ LET r == IF InvalidatesRepositories(k, mut[k].ok)
                        THEN InvalidateRepositories(repositories, repoFetch,
                                                    repoObservers)
                        ELSE [q |-> repositories, f |-> repoFetch]
               IN repositories' = r.q /\ repoFetch' = r.f
    /\ UNCHANGED <<storeVars, guardVars, extVars, installed, repoObservers, visible, ui>>

\* the caller of the mutation continues: the awaited mutateAsync returns or
\* throws, the callbacks passed to mutate run. After a successful removal the
\* dialog is closed and the chosen repository reset
CallerResumes(k) ==
    /\ mut[k].phase = "settled"
    /\ mut' = [mut EXCEPT ![k] = IdleMutation]
    /\ ui' = [removeDialogOpen |-> IF k = "remove" /\ mut[k].ok THEN FALSE
                                   ELSE ui.removeDialogOpen,
              repositoryToRemove |-> IF k = "remove" /\ mut[k].ok THEN None
                                     ELSE ui.repositoryToRemove,
              feedback |-> CallerFeedback(k, mut[k].ok, ui.feedback)]
    /\ UNCHANGED <<storeVars, guardVars, extVars, installed, repositories, repoFetch,
                   repoObservers, removedOk, visible>>

RepoQuiet ==
    /\ installed = {} /\ repositories = NoRepoData /\ repoFetch = NoFetch
    /\ repoObservers = {} /\ mut = [k \in Kinds |-> IdleMutation]
    /\ removedOk = {} /\ visible = TRUE /\ ui = NoUi

(***************************************************************************)
(* Selection pages: the list of projects / repositories offered for        *)
(* installation                                                            *)
(***************************************************************************)
\* JavaScript values of an identifier: the numbers 1 and 2 ("n1", "n2"), the
\* strings "1" and "2" ("s1", "s2"), a non-numeric string ("sx"); "nNaN" is
\* the number NaN
JsNumbers == {"n1", "n2"}
JsStrings == {"s1", "s2", "sx"}
JsIds == JsNumbers \cup JsStrings
VcsTypes == {"gitlab", "bitbucket", "github", "undefined"}
Providers == {"gitlab", "bitbucket"}

MaxInstalled == 2           \* installed repositories in the cached list
MaxAvailable == 2           \* projects / repositories the provider returns

\* Number(repo.id)
NumberOf(v) ==
    CASE v \in JsNumbers -> v
      [] v = "s1" -> "n1"
      [] v = "s2" -> "n2"
      [] OTHER -> "nNaN"

\* String(repo.id)
StringOf(v) ==
    CASE v \in JsStrings -> v
      [] v = "n1" -> "s1"
      [] v = "n2" -> "s2"
      [] OTHER -> "sNaN"

\* GitLabRepositorySelection: ids of the installed GitLab repositories
installedProjectIds_AllProviders(hasData, repos) ==
    IF ~hasData THEN {} ELSE {NumberOf(repo.id) : repo \in repos}

installedProjectIds(hasData, repos) ==
    IF ~hasData THEN {}
    ELSE {NumberOf(repo.id) : repo \in {r \in repos : r.vcs_type = "gitlab"}}

\* allProjects.filter(project => !installedProjectIds.has(project.id))
projects(allProjects, hasData, repos) ==
    SelectSeq(allProjects, LAMBDA id : id \notin installedProjectIds(hasData, repos))

\* BitbucketRepositorySelection: ids of the installed Bitbucket repositories
installedRepoIds(hasData, repos) ==
    IF ~hasData THEN {}
    ELSE {StringOf(repo.id) : repo \in {r \in repos : r.vcs_type = "bitbucket"}}

\* allRepositories.filter(repo => !installedRepoIds.has(repo.uuid))
selectableRepositories(allRepositories, hasData, repos) ==
    SelectSeq(allRepositories, LAMBDA id : id \notin installedRepoIds(hasData, repos))

InstalledRecords == [id : JsIds, vcs_type : VcsTypes]
InstalledLists == {I \in SUBSET InstalledRecords : Cardinality(I) <= MaxInstalled}
AvailableLists(ids) ==
    UNION {[1..n -> ids] : n \in 0..MaxAvailable}

\* the latest click on the selection: which, on what, and the selection it found
NoClick == [op |-> "none", id |-> None, before |-> {}]

\* selected, matches: useState(new Set()), useState(""); the search text is
\* held as the set of identifiers it matches
NoSelection == [provider |-> None, hasData |-> FALSE, installed |-> {},
                available |-> <<>>, offered |-> <<>>, rendered |-> FALSE,
                selected |-> {}, matches |-> JsIds, last |-> NoClick]

\* the GitLab selection page renders with the data of its two queries
GitLabSelectionRender ==
    /\ sel.provider = "gitlab" /\ ~sel.rendered
    /\ sel' = [sel EXCEPT !.rendered = TRUE,
                          !.offered = projects(sel.available, sel.hasData,
                                               sel.installed)]
    /\ UNCHANGED <<storeVars, guardVars, repoVars, cb, avail, pg, req, so>>

\* the Bitbucket selection page renders with the data of its two queries
BitbucketSelectionRender ==
    /\ sel.provider = "bitbucket" /\ ~sel.rendered
    /\ sel' = [sel EXCEPT !.rendered = TRUE,
                          !.offered = selectableRepositories(sel.available,
                                                             sel.hasData,
                                                             sel.installed)]
    /\ UNCHANGED <<storeVars, guardVars, repoVars, cb, avail, pg, req, so>>

Ids(list) == {list[i] : i \in DOMAIN list}

\* projects.filter(project => ... includes(searchLower) ...)
filteredProjects(offered, matches) ==
    SelectSeq(offered, LAMBDA id : id \in matches)

\* toggleProject / toggleRepository: a copy of the set with the item flipped
toggleProject(selected, id) ==
    IF id \in selected THEN selected \ {id} ELSE selected \cup {id}

\* select-all that replaces the selection by the filtered items
toggleSelectAll_Replaces(selected, filtered) ==
    IF (\A i \in DOMAIN filtered : filtered[i] \in selected) /\ Len(filtered) > 0
    THEN selected \ Ids(filtered)
    ELSE Ids(filtered)

\* toggleSelectAll: every filtered item selected and the list non-empty:
\* delete the filtered items; otherwise add them
toggleSelectAll(selected, filtered) ==
    IF (\A i \in DOMAIN filtered : filtered[i] \in selected) /\ Len(filtered) > 0
    THEN selected \ Ids(filtered)
    ELSE selected \cup Ids(filtered)

\* the search text changes: it now matches the items of M
SearchChanges(M) ==
    /\ sel.rendered /\ M \subseteq Ids(sel.offered) /\ M /= sel.matches
    /\ sel' = [sel EXCEPT !.matches = M,
                          !.last = [op |-> "search", id |-> None,
                                    before |-> sel.selected]]
    /\ UNCHANGED <<storeVars, guardVars, repoVars, cb, avail, pg, req, so>>

\* the checkbox of a listed item is clicked
ClickProject(id) ==
    /\ sel.rendered /\ id \in Ids(filteredProjects(sel.offered, sel.matches))
    /\ sel' = [sel EXCEPT
                  !.selected = toggleProject(sel.selected, id),
                  !.last = IF sel.last.op = "toggle" /\ sel.last.id = id
                           THEN [op |-> "toggle-twice", id |-> id,
                                 before |-> sel.last.before]
                           ELSE [op |-> "toggle", id |-> id,
                                 before |-> sel.selected]]
    /\ UNCHANGED <<storeVars, guardVars, repoVars, cb, avail, pg, req, so>>

\* the Select All button is clicked
ClickSelectAll ==
    /\ sel.rendered
    /\ sel' = [sel EXCEPT
                  !.selected = toggleSelectAll(sel.selected,
                                   filteredProjects(sel.offered, sel.matches)),
                  !.last = [op |-> "all", id |-> None, before |-> sel.selected]]
    /\ UNCHANGED <<storeVars, guardVars, repoVars, cb, avail, pg, req, so>>

(***************************************************************************)
(* Repositories page: pagination of the filtered list                      *)
(***************************************************************************)
ITEMS_PER_PAGE == 10
MaxItems == 61              \* length of the filtered list

Min(a, b) == IF a <= b THEN a ELSE b
Max(a, b) == IF a >= b THEN a ELSE b

\* Math.ceil(n / d) for n >= 0, d > 0
Ceil_Floor(n, d) == n \div d

Ceil(n, d) == (n + d - 1) \div d

\* Array.prototype.slice(start, end): negative arguments count from the end,
\* both are clamped to the array
Slice(arr, start, end) ==
    LET len == Len(arr)
        from == IF start < 0 THEN Max(len + start, 0) ELSE Min(start, len)
        to == IF end < 0 THEN Max(len + end, 0) ELSE Min(end, len)
    IN IF to <= from THEN <<>> ELSE SubSeq(arr, from + 1, to)

\* the filtered list, each repository named by its 0-based index
filteredRepositories(n) == [i \in 1..n |-> i - 1]

totalPages(n) == Ceil(n, ITEMS_PER_PAGE)

paginatedRepositories(n, currentPage) ==
    LET startIndex == (currentPage - 1) * ITEMS_PER_PAGE
    IN Slice(filteredRepositories(n), startIndex, startIndex + ITEMS_PER_PAGE)

NoPagination == [n |-> 0, currentPage |-> 1, totalPages |-> 0, page |-> <<>>,
                 rendered |-> FALSE, resetDue |-> FALSE]

\* RepositoriesPage renders: totalPages and the page window are recomputed
PaginationRender ==
    /\ ~pg.rendered
    /\ pg' = [pg EXCEPT !.rendered = TRUE,
                        !.totalPages = totalPages(pg.n),
                        !.page = paginatedRepositories(pg.n, pg.currentPage)]
    /\ UNCHANGED <<storeVars, guardVars, repoVars, cb, avail, sel, req, so>>

\* the pagination bar is shown for more than one page of items
PaginationShown == pg.rendered /\ ~pg.resetDue /\ pg.n > ITEMS_PER_PAGE

\* "Previous": setCurrentPage(prev => Math.max(1, prev - 1)), disabled on page 1
PreviousPage ==
    /\ PaginationShown /\ pg.currentPage /= 1
    /\ pg' = [pg EXCEPT !.currentPage = Max(1, pg.currentPage - 1),
                        !.rendered = FALSE]
    /\ UNCHANGED <<storeVars, guardVars, repoVars, cb, avail, sel, req, so>>

\* "Next": setCurrentPage(prev => Math.min(totalPages, prev + 1)), disabled on
\* the last page
NextPage ==
    /\ PaginationShown /\ pg.currentPage /= pg.totalPages
    /\ pg' = [pg EXCEPT !.currentPage = Min(pg.totalPages, pg.currentPage + 1),
                        !.rendered = FALSE]
    /\ UNCHANGED <<storeVars, guardVars, repoVars, cb, avail, sel, req, so>>

\* the repository data changes under the page (poll, removal): the filtered
\* list gets another length, currentPage stays
ListChanges(n) ==
    /\ pg.rendered /\ ~pg.resetDue /\ n /= pg.n
    /\ pg' = [pg EXCEPT !.n = n, !.rendered = FALSE]
    /\ UNCHANGED <<storeVars, guardVars, repoVars, cb, avail, sel, req, so>>

\* the page links: Math.min(5, totalPages) links, link i (from 0) shows pageNum
MaxPageLinks == 5
PageLinks(tp) == 0..(Min(MaxPageLinks, tp) - 1)

pageNum(i, tp, currentPage) ==
    IF tp <= 5 THEN i + 1
    ELSE IF currentPage <= 3 THEN i + 1
    ELSE IF currentPage >= tp - 2 THEN tp - 4 + i
    ELSE currentPage - 2 + i

\* a page link is clicked: setCurrentPage(pageNum)
GoToPage(i) ==
    /\ PaginationShown /\ i \in PageLinks(pg.totalPages)
    /\ pageNum(i, pg.totalPages, pg.currentPage) /= pg.currentPage
    /\ pg' = [pg EXCEPT !.currentPage = pageNum(i, pg.totalPages, pg.currentPage),
                        !.rendered = FALSE]
    /\ UNCHANGED <<storeVars, guardVars, repoVars, cb, avail, sel, req, so>>

\* the search text or a filter changes: the filtered list is recomputed in the
\* next render, and the effect that resets the page runs after it
FilterChanges(n) ==
    /\ pg.rendered /\ ~pg.resetDue
    /\ pg' = [pg EXCEPT !.n = n, !.rendered = FALSE, !.resetDue = TRUE]
    /\ UNCHANGED <<storeVars, guardVars, repoVars, cb, avail, sel, req, so>>

\* useEffect(() => setCurrentPage(1), [searchQuery, visibilityFilter,
\* languageFilter, statusFilter])
ResetPage ==
    /\ pg.rendered /\ pg.resetDue
    /\ pg' = [pg EXCEPT !.currentPage = 1, !.resetDue = FALSE,
                        !.rendered = (pg.currentPage = 1)]
    /\ UNCHANGED <<storeVars, guardVars, repoVars, cb, avail, sel, req, so>>

(***************************************************************************)
(* The request handed to fetch() and the call sites of the dashboard       *)
(***************************************************************************)
NoRequest == [sent |-> FALSE, bit |-> 0, endpoint |-> None, via |-> None,
              credentials |-> None, contentType |-> None,
              authorization |-> None, callerAuth |-> FALSE]

\* fetch(url, init) is called with the request r
Send(r) ==
    [sent |-> TRUE, bit |-> 1 - req.bit, endpoint |-> r.endpoint, via |-> r.via,
     credentials |-> r.credentials, contentType |-> r.contentType,
     authorization |-> r.authorization, callerAuth |-> r.callerAuth]

\* any call of apiFetch: the hooks and handlers pass no options beyond method
\* and body, the guard's URL-token validation passes an Authorization header
ApiFetchCall(endpoint, options) ==
    /\ req' = Send(apiFetch(localStorage, isBrowser, endpoint, options))
    /\ UNCHANGED <<storeVars, guardVars, repoVars, cb, avail, sel, pg, so>>

\* RepositoriesPage.handleAddRepository, GitHub branch: fetch() with only an
\* Authorization header built from localStorage.getItem("session_token")
InstallFetch ==
    /\ isBrowser
    /\ LET raw == localStorage[SESSION_TOKEN_KEY]
       IN req' = Send([endpoint |-> "install", via |-> "fetch",
                       credentials |-> "same-origin", contentType |-> None,
                       authorization |-> IF raw = None THEN "null" ELSE raw,
                       callerAuth |-> TRUE])
    /\ UNCHANGED <<storeVars, guardVars, repoVars, cb, avail, sel, pg, so>>

\* useCurrentOrganization: returns early without a token, else fetch() with
\* Content-Type and Authorization headers
OrgIdFetch ==
    /\ LET token == IF isBrowser THEN localStorage[SESSION_TOKEN_KEY] ELSE None
       IN /\ Truthy(token)
          /\ req' = Send([endpoint |-> "org-id", via |-> "fetch",
                          credentials |-> "same-origin",
                          contentType |-> "application/json",
                          authorization |-> token, callerAuth |-> TRUE])
    /\ UNCHANGED <<storeVars, guardVars, repoVars, cb, avail, sel, pg, so>>

(***************************************************************************)
(* Sign-out actions of the dashboard                                       *)
(***************************************************************************)
\* UserNav 'Log out' (components/auth/user-nav.tsx), sidebar UserDropdown
\* 'Sign out' (components/dashboard/user-dropdown.tsx), and the 'Log Out and
\* Re-authenticate' button of the selection pages
SignOutHandlers == {"UserNav", "UserDropdown", "Reauthenticate"}
LogoutOutcomes == {"ok", "status", "throw"}

NoSignOut == [handler |-> None, phase |-> "idle", outcome |-> None,
              pushed |-> FALSE]

\* the logout request each handler sends
LogoutRequest(handler, ls, browser) ==
    IF handler = "UserDropdown"
    THEN [endpoint |-> "logout", via |-> "fetch", credentials |-> "include",
          contentType |-> None, authorization |-> None, callerAuth |-> FALSE]
    ELSE apiFetch(ls, browser, "logout", NoOptions)

\* what the handler does to the store once the awaited request has settled
\* or thrown
AfterLogout(handler, ls, browser) ==
    IF handler = "UserDropdown" THEN ls ELSE clearSessionToken(ls, browser)

\* the user picks a sign-out action: the handler sends POST /login/logout
SignOutClick(handler) ==
    /\ isBrowser /\ so.phase = "idle"
    /\ req' = Send(LogoutRequest(handler, localStorage, isBrowser))
    /\ so' = [NoSignOut EXCEPT !.handler = handler, !.phase = "awaiting"]
    /\ UNCHANGED <<storeVars, guardVars, repoVars, cb, avail, sel, pg>>

\* the request succeeds, is answered with a failure status, or throws; the
\* handler then runs to its end
SignOutSettles(outcome) ==
    /\ so.phase = "awaiting"
    /\ localStorage' = AfterLogout(so.handler, localStorage, isBrowser)
    /\ so' = [so EXCEPT !.phase = "done", !.outcome = outcome, !.pushed = TRUE]
    /\ UNCHANGED <<isBrowser, opLog, lastGet, guardVars, repoVars, sel, pg, req, cb,
                   avail>>

\* the user signs in again: the login flow stores a token
SignInAgain(token) ==
    /\ so.phase = "done"
    /\ localStorage' = setSessionToken(localStorage, isBrowser, token)
    /\ so' = NoSignOut
    /\ UNCHANGED <<isBrowser, opLog, lastGet, guardVars, repoVars, sel, pg, req, cb,
                   avail>>

(***************************************************************************)
(* /auth/callback: the effect of AuthCallbackContent                       *)
(***************************************************************************)
MaxCallbacks == 3           \* visits of /auth/callback

\* searchParams.get('token'): null, '' or a token
CallbackTokens == Tokens \cup {None, Empty}

NoCallback == [phase |-> "idle", token |-> None, mode |-> None, navs |-> <<>>,
               requests |-> 0, wrote |-> FALSE, before |-> None, runs |-> 0]

\* if (response.ok) localStorage.setItem('session_token', token)
CallbackStores_Always(ok) == TRUE

CallbackStores(ok) == ok

\* handleAuthCallback up to its await: without a token push /login and return,
\* else fetch validate-session with Authorization: Bearer token
CallbackRun(token) ==
    /\ cb.phase \in {"idle", "done"} /\ cb.runs < MaxCallbacks
    /\ cb' = IF ~Truthy(token)
             THEN [phase |-> "done", token |-> token, mode |-> None,
                   navs |-> <<"/login">>, requests |-> 0, wrote |-> FALSE,
                   before |-> localStorage[SESSION_TOKEN_KEY],
                   runs |-> cb.runs + 1]
             ELSE [phase |-> "fetching", token |-> token, mode |-> None,
                   navs |-> <<>>, requests |-> 1, wrote |-> FALSE,
                   before |-> localStorage[SESSION_TOKEN_KEY],
                   runs |-> cb.runs + 1]
    /\ UNCHANGED <<storeVars, guardVars, repoVars, sel, pg, req, so, avail>>

\* the awaited fetch settles: ok stores the token and pushes /dashboard; a
\* non-ok status and the catch block push /login
CallbackSettles(mode) ==
    /\ cb.phase = "fetching"
    /\ LET ok == ResponseOk(mode)
           stores == CallbackStores(ok)
       IN /\ localStorage' = IF stores
                             THEN [localStorage EXCEPT ![SESSION_TOKEN_KEY] = cb.token]
                             ELSE localStorage
          /\ cb' = [cb EXCEPT !.phase = "done", !.mode = mode, !.wrote = stores,
                              !.navs = Append(@, IF ok THEN "/dashboard"
                                                 ELSE "/login")]
    /\ UNCHANGED <<isBrowser, opLog, lastGet, guardVars, repoVars, sel, pg, req, so,
                   avail>>

(***************************************************************************)
(* Available lists: ['gitlab-projects'], ['bitbucket-repositories'] and    *)
(* the refresh mutations                                                   *)
(***************************************************************************)
Items == {"p1", "p2"}
Collections == SUBSET Items
CacheKeys == {"gitlab-projects", "bitbucket-repositories", "repositories"}

NoEntry == [hasData |-> FALSE, data |-> {}, isInvalidated |-> FALSE]
IdleRefresh == [phase |-> "idle", attempt |-> 0, ok |-> FALSE, body |-> {}]
NoAvailable == [p \in Providers |-> [entry |-> NoEntry, refresh |-> IdleRefresh]]

AvailableKey(p) == IF p = "gitlab" THEN "gitlab-projects"
                   ELSE "bitbucket-repositories"

\* onSuccess of a refresh hook: the keys it writes with setQueryData
RefreshWrites(p) == {AvailableKey(p)}

\* onSuccess that also invalidates the installed list, as the select hooks do
RefreshInvalidates_Installed(p) == {"repositories"}

\* onSuccess of a refresh hook: the keys it invalidates
RefreshInvalidates(p) == {}

\* queryClient.setQueryData(key, data)
setQueryData(entry, data) ==
    [hasData |-> TRUE, data |-> data, isInvalidated |-> FALSE]

\* the list query of a selection page settles with the list the backend holds
AvailableLoads(p, list) ==
    /\ avail[p].refresh.phase = "idle"
    /\ avail[p].entry /= setQueryData(avail[p].entry, list)
    /\ avail' = [avail EXCEPT ![p].entry = setQueryData(@, list)]
    /\ UNCHANGED <<storeVars, guardVars, repoVars, sel, pg, req, so, cb>>

\* handleRefresh: refreshMutation.mutate(), GET ...available?force_refresh=true
RefreshClick(p) ==
    /\ avail[p].refresh.phase = "idle"
    /\ avail' = [avail EXCEPT ![p].refresh = [IdleRefresh EXCEPT !.phase = "sent"]]
    /\ UNCHANGED <<storeVars, guardVars, repoVars, sel, pg, req, so, cb>>

\* the backend answers the forced request with a fresh list, or fails
RefreshServe(p) ==
    /\ avail[p].refresh.phase = "sent"
    /\ \E ok \in BOOLEAN, list \in Collections :
          /\ ~ok => list = {}
          /\ avail' = [avail EXCEPT ![p].refresh.phase = "answered",
                                    ![p].refresh.ok = ok,
                                    ![p].refresh.body = list]
    /\ UNCHANGED <<storeVars, guardVars, repoVars, sel, pg, req, so, cb>>

\* mutationFn settles: a failure is retried once, then the mutation ends in
\* error; ok runs onSuccess
RefreshResponse(p) ==
    /\ avail[p].refresh.phase = "answered"
    /\ LET r == avail[p].refresh IN
       IF r.ok
       THEN /\ avail' = [q \in Providers |->
                           [entry |-> IF AvailableKey(q) \in RefreshWrites(p)
                                      THEN setQueryData(avail[q].entry, r.body)
                                      ELSE avail[q].entry,
                            refresh |-> IF q = p THEN IdleRefresh
                                        ELSE avail[q].refresh]]
            /\ repositories' =
                  IF "repositories" \in RefreshInvalidates(p)
                  THEN [repositories EXCEPT !.isInvalidated = TRUE]
                  ELSE repositories
       ELSE /\ avail' = [avail EXCEPT ![p].refresh =
                            IF r.attempt < MutationRetry
                            THEN [r EXCEPT !.phase = "sent", !.attempt = @ + 1]
                            ELSE IdleRefresh]
            /\ UNCHANGED repositories
    /\ UNCHANGED <<storeVars, guardVars, installed, repoFetch, repoObservers, mut,
                   removedOk, visible, ui, sel, pg, req, so, cb>>

(***************************************************************************)
(* Quiescent values of the parts a specification does not exercise         *)
(***************************************************************************)
ExtQuiet ==
    /\ sel = NoSelection /\ pg = NoPagination /\ req = NoRequest /\ so = NoSignOut
    /\ cb = NoCallback /\ avail = NoAvailable

StoreQuiet == opLog = <<>> /\ lastGet = None

GuardQuiet ==
    /\ urlToken = None /\ searchParams = None
    /\ backend = [t \in Tokens |-> "valid"]
    /\ urlReq = NoUrlValidation /\ sessionReqs = <<>>
    /\ mounted = FALSE
    /\ tokenProcessed = FALSE /\ isValidatingToken = FALSE /\ sessionReady = FALSE
    /\ vpc = "idle" /\ timer100 = FALSE
    /\ rendered = NotRendered /\ effectsDue = {}
    /\ sq = FreshQuery /\ guardObs = NoObserver /\ pageObs = NoObserver
    /\ resolverCalls = 0 /\ urlValidations = 0 /\ loginNavs = 0
    /\ verdictSeq = 0 /\ invalidNavs = [v \in 0..MaxRuns |-> 0]
    /\ hist = [hadUrlToken |-> FALSE, urlVerdict |-> "none", persisted |-> FALSE,
               resolverRan |-> FALSE, expired |-> FALSE]
    /\ lastEvent = "none"

(***************************************************************************)
(* Spec: one page load of /dashboard                                       *)
(***************************************************************************)
Init ==
    /\ isBrowser = TRUE
    /\ \E s \in {None, "S"} :
          localStorage = [k \in StorageKeys |->
                             IF k = SESSION_TOKEN_KEY THEN s ELSE None]
    /\ StoreQuiet
    /\ urlToken \in {None, "T"}
    /\ searchParams = urlToken
    /\ backend \in [Tokens -> Modes]
    /\ urlReq = NoUrlValidation /\ sessionReqs = <<>>
    /\ mounted = TRUE
    /\ tokenProcessed = FALSE /\ isValidatingToken = FALSE /\ sessionReady = FALSE
    /\ vpc = "idle" /\ timer100 = FALSE
    /\ rendered = NotRendered /\ effectsDue = {}
    /\ sq = FreshQuery /\ guardObs = NoObserver /\ pageObs = NoObserver
    /\ resolverCalls = 0 /\ urlValidations = 0 /\ loginNavs = 0
    /\ verdictSeq = 0 /\ invalidNavs = [v \in 0..MaxRuns |-> 0]
    /\ hist = [hadUrlToken |-> urlToken /= None, urlVerdict |-> "none",
               persisted |-> FALSE, resolverRan |-> FALSE, expired |-> FALSE]
    /\ lastEvent = "none"
    /\ RepoQuiet
    /\ ExtQuiet

Next ==
    \/ Render
    \/ FlushEffects
    \/ UrlValidationResponse
    \/ Timer50
    \/ Timer100
    \/ SyncSearchParams
    \/ Unmount
    \/ SessionResponse
    \/ StaleTimeElapses
    \/ Reconnect
    \/ WindowFocus
    \/ SessionExpires
    \/ PageMount
    \/ PageRender
    \/ PageUnmount

Spec == Init /\ [][Next]_vars

(***************************************************************************)
(* SpecStore                                                               *)
(***************************************************************************)
InitStore ==
    /\ isBrowser \in BOOLEAN
    /\ \E s \in Tokens \cup {None} :
          localStorage = [k \in StorageKeys |->
                             IF k = SESSION_TOKEN_KEY THEN s ELSE None]
    /\ StoreQuiet
    /\ GuardQuiet
    /\ RepoQuiet
    /\ ExtQuiet

NextStore ==
    \/ \E x \in TokenValues : StoreSet(x)
    \/ StoreGet
    \/ StoreClear

SpecStore == InitStore /\ [][NextStore]_vars

(***************************************************************************)
(* SpecRepo                                                                *)
(***************************************************************************)
InitRepo ==
    /\ isBrowser = TRUE
    /\ localStorage = [k \in StorageKeys |-> IF k = SESSION_TOKEN_KEY THEN "S" ELSE None]
    /\ StoreQuiet
    /\ GuardQuiet
    /\ installed \in SUBSET RepoIds
    /\ repositories = NoRepoData /\ repoFetch = NoFetch
    /\ repoObservers = {} /\ mut = [k \in Kinds |-> IdleMutation]
    /\ removedOk = {} /\ visible = TRUE /\ ui = NoUi
    /\ ExtQuiet

NextRepo ==
    \/ \E site \in Sites : RepoMount(site)
    \/ \E site \in Sites : RepoUnmount(site)
    \/ RepoPoll
    \/ RepoServe
    \/ RepoResponse
    \/ \E k \in Kinds, id \in RepoIds : Mutate(k, id)
    \/ \E id \in RepoIds : openRemoveDialog(id)
    \/ handleRemoveRepository
    \/ \E k \in Kinds : MutationServe(k)
    \/ \E k \in Kinds : MutationResponse(k)
    \/ \E k \in Kinds : CallerResumes(k)

SpecRepo == InitRepo /\ [][NextRepo]_vars

(***************************************************************************)
(* SpecPoll: the 'repositories' entry under its refetch triggers: mounts,   *)
(* the interval, the tab going to the background and coming back           *)
(***************************************************************************)
NextPoll ==
    \/ \E site \in Sites : RepoMount(site)
    \/ \E site \in Sites : RepoUnmount(site)
    \/ RepoPoll
    \/ TabHidden
    \/ RepoFocus
    \/ RepoServe
    \/ RepoResponse

SpecPoll == InitRepo /\ [][NextPoll]_vars

(***************************************************************************)
(* SpecDialog: the remove dialog of the repositories page and the install  *)
(* buttons of the selection pages, with what their callers show            *)
(***************************************************************************)
NextDialog ==
    \/ \E site \in Sites : RepoMount(site)
    \/ \E site \in Sites : RepoUnmount(site)
    \/ RepoServe
    \/ RepoResponse
    \/ \E k \in Kinds, id \in RepoIds : Mutate(k, id)
    \/ \E id \in RepoIds : openRemoveDialog(id)
    \/ handleRemoveRepository
    \/ DialogCloseRequest
    \/ \E k \in Kinds : MutationServe(k)
    \/ \E k \in Kinds : MutationResponse(k)
    \/ \E k \in Kinds : CallerResumes(k)

SpecDialog == InitRepo /\ [][NextDialog]_vars

(***************************************************************************)
(* SpecSelect: a selection page rendering over every pair of lists         *)
(***************************************************************************)
InitSelect ==
    /\ isBrowser = TRUE
    /\ localStorage = [k \in StorageKeys |-> IF k = SESSION_TOKEN_KEY THEN "S" ELSE None]
    /\ StoreQuiet
    /\ GuardQuiet
    /\ RepoQuiet
    /\ \E p \in Providers, hasData \in BOOLEAN, I \in InstalledLists :
       \E A \in AvailableLists(IF p = "gitlab" THEN JsNumbers ELSE JsStrings) :
          sel = [provider |-> p, hasData |-> hasData,
                 installed |-> IF hasData THEN I ELSE {},
                 available |-> A, offered |-> <<>>, rendered |-> FALSE,
                 selected |-> {}, matches |-> JsIds, last |-> NoClick]
    /\ pg = NoPagination /\ req = NoRequest /\ so = NoSignOut
    /\ cb = NoCallback /\ avail = NoAvailable

NextSelect ==
    \/ GitLabSelectionRender
    \/ BitbucketSelectionRender

SpecSelect == InitSelect /\ [][NextSelect]_vars

(***************************************************************************)
(* SpecToggle: the selection of a selection page under search, single      *)
(* toggles and Select All                                                  *)
(***************************************************************************)
InitToggle ==
    /\ isBrowser = TRUE
    /\ localStorage = [k \in StorageKeys |-> IF k = SESSION_TOKEN_KEY THEN "S" ELSE None]
    /\ StoreQuiet
    /\ GuardQuiet
    /\ RepoQuiet
    /\ \E p \in Providers :
       \E A \in AvailableLists(IF p = "gitlab" THEN JsNumbers ELSE JsStrings) :
          sel = [provider |-> p, hasData |-> FALSE, installed |-> {},
                 available |-> A, offered |-> <<>>, rendered |-> FALSE,
                 selected |-> {}, matches |-> JsIds, last |-> NoClick]
    /\ pg = NoPagination /\ req = NoRequest /\ so = NoSignOut
    /\ cb = NoCallback /\ avail = NoAvailable

NextToggle ==
    \/ GitLabSelectionRender
    \/ BitbucketSelectionRender
    \/ \E M \in SUBSET JsIds : SearchChanges(M)
    \/ \E id \in JsIds : ClickProject(id)
    \/ ClickSelectAll

SpecToggle == InitToggle /\ [][NextToggle]_vars

(***************************************************************************)
(* SpecPages: the paginated repositories list                              *)
(***************************************************************************)
InitPages ==
    /\ isBrowser = TRUE
    /\ localStorage = [k \in StorageKeys |-> IF k = SESSION_TOKEN_KEY THEN "S" ELSE None]
    /\ StoreQuiet
    /\ GuardQuiet
    /\ RepoQuiet
    /\ sel = NoSelection
    /\ req = NoRequest /\ so = NoSignOut
    /\ cb = NoCallback /\ avail = NoAvailable
    /\ \E n \in 0..MaxItems : pg = [NoPagination EXCEPT !.n = n]

NextPages ==
    \/ PaginationRender
    \/ PreviousPage
    \/ NextPage
    \/ \E n \in 0..MaxItems : ListChanges(n)
    \/ \E i \in 0..(MaxPageLinks - 1) : GoToPage(i)
    \/ \E n \in 0..MaxItems : FilterChanges(n)
    \/ ResetPage

SpecPages == InitPages /\ [][NextPages]_vars

(***************************************************************************)
(* SpecFetch: requests leaving the client, for every content of the store  *)
(***************************************************************************)
InitFetch ==
    /\ isBrowser \in BOOLEAN
    /\ \E s \in Tokens \cup {None, Empty} :
          localStorage = [k \in StorageKeys |->
                             IF k = SESSION_TOKEN_KEY THEN s ELSE None]
    /\ StoreQuiet
    /\ GuardQuiet
    /\ RepoQuiet
    /\ ExtQuiet

NextFetch ==
    \/ \E e \in Endpoints \ {"org-id", "install"}, o \in CallerOptions :
          ApiFetchCall(e, o)
    \/ InstallFetch
    \/ OrgIdFetch
    \/ \E h \in SignOutHandlers : SignOutClick(h)
    \/ \E o \in LogoutOutcomes : SignOutSettles(o)
    \/ \E t \in Tokens : SignInAgain(t)

SpecFetch == InitFetch /\ [][NextFetch]_vars

(***************************************************************************)
(* SpecCallback: visits of /auth/callback                                  *)
(***************************************************************************)
InitCallback ==
    /\ isBrowser = TRUE
    /\ \E t \in Tokens \cup {None} :
          localStorage = [k \in StorageKeys |->
                             IF k = SESSION_TOKEN_KEY THEN t ELSE None]
    /\ StoreQuiet
    /\ GuardQuiet
    /\ RepoQuiet
    /\ ExtQuiet

NextCallback ==
    \/ \E token \in CallbackTokens : CallbackRun(token)
    \/ \E mode \in Modes : CallbackSettles(mode)

SpecCallback == InitCallback /\ [][NextCallback]_vars

(***************************************************************************)
(* SpecRefresh: the available lists under loads and forced refreshes       *)
(***************************************************************************)
InitRefresh ==
    /\ isBrowser = TRUE
    /\ localStorage = [k \in StorageKeys |-> IF k = SESSION_TOKEN_KEY THEN "S" ELSE None]
    /\ StoreQuiet
    /\ GuardQuiet
    /\ RepoQuiet
    /\ ExtQuiet

NextRefresh ==
    \/ \E p \in Providers, list \in Collections : AvailableLoads(p, list)
    \/ \E p \in Providers : RefreshClick(p)
    \/ \E p \in Providers : RefreshServe(p)
    \/ \E p \in Providers : RefreshResponse(p)

SpecRefresh == InitRefresh /\ [][NextRefresh]_vars

(***************************************************************************)
(* Properties                                                              *)
(***************************************************************************)
StoredToken == getSessionToken(localStorage, isBrowser)

\* use-session.ts, the enabled option of the guard's query as the current
\* state would compute it
ResolverEnabled == SessionEnabled(sessionReady, Truthy(StoredToken))

\* C1: the URL carried session_token=T and the backend accepts T (its
\* explicit validation answered ok, and validate-session still answers 200
\* {valid: true} for T); then, once tokenProcessed and sessionReady are both
\* set, the Token Store holds T, the URL has lost the parameter and the
\* Session Resolver is enabled.
C1_AcceptedUrlToken ==
    (/\ hist.hadUrlToken /\ hist.urlVerdict = "ok" /\ backend["T"] = "valid"
     /\ tokenProcessed /\ sessionReady)
    => (StoredToken = "T" /\ urlToken = None /\ ResolverEnabled)

\* C2: the URL carried session_token=T and the backend rejected it with a
\* non-success status; once that answer has been handled the Token Store is
\* empty and router.push('/login') has been called exactly once.
C2_RejectedUrlToken ==
    (hist.hadUrlToken /\ hist.urlVerdict = "fail" /\ backend["T"] = "reject")
    => (StoredToken = None /\ loginNavs = 1)

\* C3: whenever the committed render of the guard shows the children, the
\* Session Resolver is in its VALID state: the entry holds a verdict with
\* valid = true and no error.
C3_RenderGate ==
    (rendered.committed /\ rendered.view = "children")
    => (rendered.sessionData = "valid" /\ rendered.error = 0)

\* the committed render shows a settled run of the resolver that is INVALID:
\* a query error, or a verdict whose valid is not true
VerdictInvalid(r) ==
    /\ r.committed /\ r.seq >= 1 /\ ~r.isLoading
    /\ (r.error /= 0 \/ r.sessionData /= "valid")

\* C4: once the effects of a render that shows an INVALID resolver run after
\* token processing have run, the Token Store is empty and the invalid-session
\* effect has navigated to /login for an INVALID run; for no resolver run does
\* the effect navigate more than once, however often the guard re-renders.
C4_InvalidRedirectOnce ==
    /\ \A v \in 1..MaxRuns : invalidNavs[v] <= 1
    /\ (/\ mounted /\ effectsDue = {} /\ rendered.tokenProcessed
        /\ VerdictInvalid(rendered))
       => (StoredToken = None /\ \E v \in 1..MaxRuns : invalidNavs[v] = 1)

C4_Witness ==
    /\ mounted /\ effectsDue = {} /\ rendered.tokenProcessed
    /\ VerdictInvalid(rendered) /\ rendered.seq = 2
    /\ invalidNavs[2] = 1 /\ ~isValidatingToken /\ sessionReady

\* C5: with a URL-delivered token, the resolver is not enabled for any
\* consumer and its queryFn has not run until the explicit validation has been
\* answered; an ok answer has stored the token; and the steps come in the
\* order store, strip the parameter, tokenProcessed, sessionReady.
C5_PersistBeforeResolver ==
    hist.hadUrlToken =>
       /\ (rendered.enabled \/ guardObs.enabled \/ pageObs.enabled
           \/ hist.resolverRan \/ resolverCalls > 0)
          => hist.urlVerdict /= "none"
       /\ hist.urlVerdict = "ok" => hist.persisted
       /\ urlToken = None => hist.persisted
       /\ tokenProcessed => urlToken = None
       /\ sessionReady => tokenProcessed

C5_Witness ==
    /\ hist.hadUrlToken /\ hist.persisted /\ urlToken = None
    /\ guardObs.enabled /\ resolverCalls = 1 /\ sessionReqs = <<"T">>

C8_SingleFlight ==
    /\ Len(sessionReqs) <= 1
    /\ (sq.fetchStatus = "fetching") = (Len(sessionReqs) = 1)

C8_Witness ==
    /\ guardObs.subscribed /\ guardObs.enabled
    /\ pageObs.subscribed /\ pageObs.enabled
    /\ sq.fetchStatus = "fetching" /\ Len(sessionReqs) = 1
    /\ lastEvent = "online"

\* C6: in a browser context, a getSessionToken() leaves the stored value as
\* it was and, once a set or clear has been made, returns what the latest of
\* them left: x after setSessionToken(x), null after clearSessionToken().
C6_TokenStoreCell ==
    [][(/\ isBrowser
        /\ Len(opLog') = Len(opLog) + 1
        /\ opLog'[Len(opLog')].op = "get")
       => (/\ localStorage' = localStorage
           /\ HasWrite(opLog) => lastGet' = LastWritten(opLog))]_vars

C6_Witness ==
    /\ isBrowser /\ Len(opLog) = 4
    /\ opLog[1] = [op |-> "set", arg |-> "T"] /\ opLog[2].op = "get"
    /\ opLog[3].op = "clear" /\ opLog[4].op = "get"
    /\ lastGet = None


\* The step in which the client handles the final response of mutation k
\* (its attempt succeeded, or failed with no retry left)
Settles(k) == mut[k].phase = "answered" /\ mut'[k].phase = "settled"

\* C9: each of the four mutations (add, remove, GitLab select, Bitbucket
\* select) invalidates the 'repositories' cache entry exactly on success: the
\* step that settles a successful mutation leaves the entry marked invalidated
\* with its data as it was, and the step that settles a failed mutation, like
\* the step that retries a failed attempt, leaves the entry and its in-flight
\* fetch untouched.
C9_InvalidateOnSuccessOnly ==
    [][\A k \in Kinds :
          /\ (Settles(k) /\ mut[k].ok) =>
                (/\ repositories'.isInvalidated
                 /\ repositories'.hasData = repositories.hasData
                 /\ repositories'.data = repositories.data)
          /\ (mut[k].phase = "answered" /\ ~mut[k].ok /\ mut'[k] /= mut[k]) =>
                (repositories' = repositories /\ repoFetch' = repoFetch)]_vars

\* C9 witness: a Bitbucket selection whose first attempt failed and whose
\* retry succeeded has settled while fresh data was cached: the entry is now
\* invalidated and its refetch is on the way.
C9_Witness ==
    /\ mut["bitbucket"].phase = "settled" /\ mut["bitbucket"].ok
    /\ mut["bitbucket"].attempt = 1
    /\ repositories.hasData /\ repositories.isInvalidated
    /\ repoFetch.phase = "sent"

\* C10: after a removal has succeeded, a read of the installed-repository list
\* is served by a fetch the backend answered after the removal and so does not
\* contain the removed id: a cached list that still contains a removed (and not
\* re-added) id is marked invalidated, never presented as fresh. This is to
\* hold whether or not the caller of the mutation has resumed.
C10_ReadAfterRemove ==
    \A id \in removedOk :
        (id \notin installed /\ repositories.hasData /\ id \in repositories.data)
            => repositories.isInvalidated

\* Two identifier values denote the same identifier: equal up to the
\* number / decimal-string representation
SameIdentifier(a, b) == StringOf(a) = StringOf(b)

\* C11, over every installed repository: the offered list is the available list without every
\* element whose identifier is the identifier of an installed repository,
\* whatever the provider of that installed repository.
C11_SetDifferenceAnyInstalled ==
    sel.rendered =>
        sel.offered = SelectSeq(sel.available,
                          LAMBDA a : ~\E r \in sel.installed : SameIdentifier(r.id, a))

\* C11, by provider: the offered list is the available list, in order, without
\* exactly the elements whose identifier is the identifier of an installed
\* repository of the page's own provider (vcs_type 'gitlab' on the GitLab page,
\* 'bitbucket' on the Bitbucket page); with no installed data nothing is
\* excluded.
C11_SetDifferenceByProvider ==
    sel.rendered =>
        sel.offered = SelectSeq(sel.available,
                          LAMBDA a : ~\E r \in sel.installed :
                                         /\ r.vcs_type = sel.provider
                                         /\ SameIdentifier(r.id, a))

\* C11 witness: the GitLab page with project 1 installed and projects 1, 2
\* available offers exactly project 2.
C11_Witness ==
    /\ sel.rendered /\ sel.provider = "gitlab"
    /\ [id |-> "n1", vcs_type |-> "gitlab"] \in sel.installed
    /\ sel.available = <<"n1", "n2">>
    /\ sel.offered = <<"n2">>

\* C12: pagination arithmetic with page size 10. After a render, totalPages
\* is the least number of pages of 10 that hold the n filtered items, and for
\* a current page p with 1 <= p <= totalPages the rendered page holds exactly
\* the items with indices (p-1)*10 .. min(p*10, n)-1, in order.
C12_PaginationArithmetic ==
    pg.rendered =>
        /\ pg.totalPages * 10 >= pg.n
        /\ pg.totalPages >= 0
        /\ pg.totalPages > 0 => (pg.totalPages - 1) * 10 < pg.n
        /\ (1 <= pg.currentPage /\ pg.currentPage <= pg.totalPages) =>
              LET first == (pg.currentPage - 1) * 10
                  last == Min(pg.currentPage * 10, pg.n) - 1
              IN /\ Len(pg.page) = last - first + 1
                 /\ \A j \in 1..Len(pg.page) : pg.page[j] = first + j - 1

\* C12 witness: 23 items, page 3 rendered: 3 pages, and page 3 holds exactly
\* the 3 items 20, 21, 22.
C12_Witness ==
    /\ pg.rendered /\ pg.n = 23 /\ pg.currentPage = 3
    /\ pg.totalPages = 3 /\ pg.page = <<20, 21, 22>>

\* The Token Store holds a non-empty token at this moment
StoreHoldsToken == isBrowser /\ Truthy(localStorage[SESSION_TOKEN_KEY])

\* C13: every apiFetch call whose caller supplies no Authorization header is
\* handed to fetch (it does not throw for a missing token) and carries
\* 'Authorization: Bearer t' exactly when the Token Store holds a non-empty
\* token t at call time, and no Authorization header when it holds none.
C13_AuthorizationFollowsStore ==
    [][(req' /= req /\ req'.via = "apiFetch" /\ ~req'.callerAuth) =>
          /\ req'.sent
          /\ StoreHoldsToken => req'.authorization = localStorage[SESSION_TOKEN_KEY]
          /\ ~StoreHoldsToken => req'.authorization = None]_vars

\* C13 witness: apiFetch was called without caller headers while the store
\* held S, and the request carries Bearer S.
C13_Witness ==
    /\ req.sent /\ req.via = "apiFetch" /\ ~req.callerAuth
    /\ StoreHoldsToken /\ req.authorization = "S"

\* C14: every request the client sends to the backend is sent with
\* credentials 'include' and, whenever the Token Store holds a token, with
\* 'Authorization: Bearer <that token>', whatever options the caller supplies.
C14_AllRequestsCarryCredentials ==
    [][req' /= req =>
          /\ req'.credentials = "include"
          /\ StoreHoldsToken => req'.authorization = localStorage[SESSION_TOKEN_KEY]]_vars

\* The step in which the resolver's queryFn settles on the answer to its
\* request
ResolverAnswered == Len(sessionReqs') < Len(sessionReqs)

\* The step in which the resolver's queryFn settles without having sent a
\* request
ResolverShortCircuited == verdictSeq' /= verdictSeq /\ ~ResolverAnswered

\* C15: a validation run ends in the error state, with no further
\* validate-session request issued for it, when the backend answers with a
\* non-success status, when the fetch throws, when the body fails the schema
\* (valid not a boolean, or an optional field of the wrong type), and when no
\* credential is stored at call time.
C15_FailureWithoutRetry ==
    [][/\ (ResolverAnswered
           /\ backend[sessionReqs[1]] \in {"reject", "throw", "badshape", "badfield"}) =>
              /\ sq'.status = "error" /\ sq'.error /= 0
              /\ sq'.fetchStatus = "idle"
              /\ sessionReqs' = <<>> /\ resolverCalls' = resolverCalls
       /\ ResolverShortCircuited =>
              /\ sq'.status = "error" /\ sq'.error /= 0
              /\ sq'.fetchStatus = "idle"
              /\ sessionReqs' = <<>> /\ resolverCalls' = resolverCalls]_vars

\* C15 witness: the backend answered the stored token with valid: true and a
\* user_id of the wrong type; the single run ended in error after one request.
C15_Witness ==
    /\ backend["S"] = "badfield" /\ ~hist.expired
    /\ sq.status = "error" /\ sq.fetchStatus = "idle"
    /\ verdictSeq = 1 /\ resolverCalls = 1 /\ sessionReqs = <<>>

\* C16: with an empty Token Store the resolver sends no validate-session
\* request: a render that finds the store empty has the query disabled, and
\* every request the queryFn sends is sent while the store holds a token and
\* carries that token (so a queryFn that finds the store empty settles without
\* a request).
C16_MissingCredentialShortCircuit ==
    /\ []((rendered.committed /\ ~rendered.hasToken) => ~rendered.enabled)
    /\ [][resolverCalls' /= resolverCalls =>
             /\ StoreHoldsToken
             /\ sessionReqs' = Append(sessionReqs, localStorage[SESSION_TOKEN_KEY])]_vars

\* C16 witness: a second run of the queryFn, started for a render that still
\* had the query enabled after the store was emptied, settled in error without
\* sending a request: two runs, one request.
C16_Witness ==
    /\ hist.resolverRan /\ verdictSeq = 2 /\ resolverCalls = 1
    /\ sessionReqs = <<>> /\ sq.status = "error" /\ ~StoreHoldsToken
    /\ rendered.committed /\ rendered.hasToken /\ rendered.enabled

\* C17: a valid URL-delivered token is never bounced: when the page was
\* loaded with session_token=T and the backend accepts T (success, valid:
\* true) throughout, then as long as the guard has not rendered the
\* authenticated content no step clears the stored token and no step
\* navigates to /login.
C17_ValidUrlTokenNotBounced ==
    [][(/\ hist.hadUrlToken /\ backend["T"] = "valid" /\ ~hist.expired
        /\ ~(rendered.committed /\ rendered.view = "children")) =>
          /\ loginNavs' = loginNavs
          /\ StoreHoldsToken => StoreHoldsToken']_vars

\* C18: no retry loop on a rejected URL token: when the backend fails the
\* validation of the URL-delivered token (non-success status or thrown error),
\* the guard issues at most one validate-session request for it, and once the
\* failure is handled the stored token is cleared, /login has been navigated
\* to and processing is marked complete.
C18_NoRetryOnRejectedUrlToken ==
    (hist.hadUrlToken /\ backend["T"] \in {"reject", "throw"}) =>
        /\ urlValidations <= 1
        /\ hist.urlVerdict = "fail" =>
              (tokenProcessed /\ ~StoreHoldsToken /\ loginNavs >= 1)

\* C19: cookie-only entry: when the page is loaded without session_token in
\* the URL, the guard issues no URL-token validation, marks processing
\* complete and the resolver ready together, and whatever verdict follows
\* (authenticated content or a navigation to /login) is decided by a
\* validate-session call to the backend, also when the Token Store is empty.
C19_CookieOnlyEntry ==
    ~hist.hadUrlToken =>
        /\ urlValidations = 0
        /\ tokenProcessed = sessionReady
        /\ (loginNavs > 0 \/ (rendered.committed /\ rendered.view = "children")) =>
              resolverCalls >= 1

\* C20: logout destroys the credential: once any sign-out action of the
\* dashboard has run to its end, the Token Store is empty and a navigation to
\* /login has been issued, whether the logout request succeeded, failed or
\* threw.
C20_LogoutDestroysCredential ==
    so.phase = "done" =>
        (so.pushed /\ localStorage[SESSION_TOKEN_KEY] = None)

\* C21: the page index stays clamped: in every committed render of the
\* repositories page whose page-reset effect is not pending, the current page p
\* satisfies 1 <= p <= max(1, totalPages), so the page window is non-empty
\* whenever the filtered list is non-empty.
C21_PageIndexClamped ==
    (pg.rendered /\ ~pg.resetDue) =>
        /\ 1 <= pg.currentPage
        /\ pg.currentPage <= Max(1, pg.totalPages)
        /\ pg.n > 0 => Len(pg.page) > 0

\* C22: polling is gated. A fetch of ['repositories'] asked for by the
\* 10-second interval starts only while the tab is visible, only when a call
\* site with enablePolling: true is mounted, and never while another fetch of
\* the same key is in flight.
IntervalFetchStarts ==
    /\ repoFetch' /= repoFetch
    /\ repoFetch'.phase = "sent" /\ repoFetch'.cause = "interval"
    /\ repoFetch'.attempt = 0

C22_PollingGated ==
    [][IntervalFetchStarts =>
         /\ visible
         /\ \E site \in repoObservers : site = "page"
         /\ repositories.fetchStatus = "idle" /\ repoFetch.phase = "none"]_vars

\* C22 witness: an interval fetch is in flight for the visible repositories
\* page, which already shows a list.
C22_Witness ==
    /\ repoFetch.phase = "sent" /\ repoFetch.cause = "interval"
    /\ visible /\ repoObservers = {"page"}
    /\ repositories.hasData

\* C23: the URL token overrides the stored token for its own validation. While
\* the validation of the URL token T is in flight, its request carries
\* Authorization: Bearer T, whatever the Token Store holds, together with the
\* defaults of apiFetch: Content-Type application/json and credentials
\* 'include'.
C23_UrlTokenOverridesStored ==
    vpc = "fetching" =>
        /\ urlReq.tokenFromUrl = "T"
        /\ urlReq.request.authorization = urlReq.tokenFromUrl
        /\ urlReq.request.authorization /= "S"
        /\ urlReq.request.contentType = "application/json"
        /\ urlReq.request.credentials = "include"
        /\ urlReq.request.endpoint = "validate-session"

\* C23 witness: the store holds S while the validation of T is in flight.
C23_Witness ==
    /\ vpc = "fetching" /\ localStorage[SESSION_TOKEN_KEY] = "S"
    /\ urlReq.request.authorization = "T"

\* a resolver request is issued in this step
ResolverFetchStarts == Len(sessionReqs') > Len(sessionReqs)

\* a consumer of the resolver mounts while the cached verdict is past its
\* freshness window, a token is stored and no request is in flight
StaleRemount ==
    /\ ~pageObs.subscribed /\ pageObs'.subscribed
    /\ sq.data /= None /\ sq.stale /\ sq.fetchStatus = "idle"
    /\ Truthy(getSessionToken(localStorage, isBrowser))
    /\ verdictSeq + Len(sessionReqs) < MaxRuns

\* C24: re-validation of the cached session verdict: a window-focus event
\* starts no resolver request, the end of the 2-minute freshness window starts
\* none by itself, and a consumer mounting after the window has ended starts
\* one.
C24_RevalidationTriggers ==
    [][/\ (lastEvent /= "focus" /\ lastEvent' = "focus") => ~ResolverFetchStarts
       /\ (~sq.stale /\ sq'.stale) => ~ResolverFetchStarts
       /\ StaleRemount => ResolverFetchStarts]_vars

\* the caller of the failed mutation k resumes in this step
FailureHandled(k) ==
    mut[k].phase = "settled" /\ ~mut[k].ok /\ mut'[k].phase = "idle"

\* C25: no invisible failure in the selection and removal flows. When the
\* caller of a failed remove, GitLab select or Bitbucket select mutation has
\* resumed, the latest thing shown to the user is an error for that mutation:
\* a destructive toast or a redirect issued for the failure.
C25_NoInvisibleFailure ==
    [][\A k \in {"remove", "gitlab", "bitbucket"} :
          FailureHandled(k) =>
              /\ ui'.feedback.for = k
              /\ ui'.feedback.shown \in {"destructive-toast", "redirect"}]_vars

\* a DELETE request is started by a click in this step
RemovalStarts ==
    /\ mut'["remove"] /= mut["remove"]
    /\ mut'["remove"].phase = "sent" /\ mut'["remove"].attempt = 0

C26_OnlyValidatedUrlTokenStored ==
    StoredToken = "T" =>
        /\ hist.hadUrlToken /\ hist.urlVerdict = "ok"
        /\ backend["T"] \notin {"reject", "throw"} \/ hist.expired

\* C26 witness: T has just been stored after its validation was answered with
\* success; the 50 ms wait is running.
C26_Witness ==
    /\ StoredToken = "T" /\ hist.urlVerdict = "ok" /\ vpc = "sleeping"
    /\ urlValidations = 1 /\ ~tokenProcessed /\ ~hist.expired

\* C28: Select All respects the filter. After a click on Select All, an item
\* outside the filtered list is selected exactly if it was before; if the
\* filtered list was non-empty and fully selected the selection is the former
\* one without the filtered items, otherwise the former one plus the filtered
\* items. After two clicks in a row on the same item the selection is the one
\* before the first click.
C28_SelectAllRespectsFilter ==
    LET F == Ids(filteredProjects(sel.offered, sel.matches))
        b == sel.last.before
    IN /\ sel.last.op = "all" =>
            /\ \A x \in JsIds \ F : (x \in sel.selected) <=> (x \in b)
            /\ IF F /= {} /\ F \subseteq b
               THEN sel.selected = b \ F
               ELSE sel.selected = b \cup F
       /\ sel.last.op = "toggle-twice" => sel.selected = b

\* C28 witness: Select All was clicked with a filter that leaves a selected
\* item out and was itself fully selected: the filtered items are gone from
\* the selection, the item outside is still selected.
C28_Witness ==
    LET F == Ids(filteredProjects(sel.offered, sel.matches))
    IN /\ sel.last.op = "all" /\ F /= {} /\ F \subseteq sel.last.before
       /\ sel.last.before \ F /= {}
       /\ sel.selected = sel.last.before \ F

\* C29: the legacy auth callback. When a run of the callback has ended it has
\* navigated exactly once: to /dashboard exactly if the URL carried a token and
\* the backend answered its validation with a success status, otherwise to
\* /login; the token was written to storage only in that accepted case;
\* without a token no request was made; after a non-success answer or a thrown
\* request the stored credential is the one found at the start of the run.
C29_LegacyCallback ==
    cb.phase = "done" =>
        LET accepted == Truthy(cb.token) /\ cb.mode /= None /\ ResponseOk(cb.mode)
        IN /\ Len(cb.navs) = 1
           /\ cb.navs[1] = (IF accepted THEN "/dashboard" ELSE "/login")
           /\ cb.wrote <=> accepted
           /\ accepted => localStorage[SESSION_TOKEN_KEY] = cb.token
           /\ ~Truthy(cb.token) => cb.requests = 0
           /\ ~accepted => localStorage[SESSION_TOKEN_KEY] = cb.before

\* C29 witness: the store held S, the callback was given T and the backend
\* answered 401: one navigation to /login and S is still stored.
C29_Witness ==
    /\ cb.phase = "done" /\ cb.token = "T" /\ cb.mode = "reject"
    /\ cb.before = "S" /\ localStorage[SESSION_TOKEN_KEY] = "S"
    /\ cb.navs = <<"/login">>

\* the refresh of provider p settles with success / for good with a failure in
\* this step
RefreshSucceeds(p) ==
    avail[p].refresh.phase = "answered" /\ avail[p].refresh.ok
    /\ avail'[p].refresh.phase = "idle"

RefreshFails(p) ==
    avail[p].refresh.phase = "answered" /\ ~avail[p].refresh.ok
    /\ avail'[p].refresh.phase = "idle"

Entries == [p \in Providers |-> avail[p].entry]

\* C30: force refresh. A refresh that succeeds leaves the provider's entry
\* holding exactly the list the forced request returned, and leaves the other
\* provider's entry and the 'repositories' entry as they were; a refresh that
\* fails leaves all three entries as they were.
C30_ForceRefresh ==
    [][\A p \in Providers :
          /\ RefreshSucceeds(p) =>
                /\ avail'[p].entry.hasData
                /\ avail'[p].entry.data = avail[p].refresh.body
                /\ \A q \in Providers \ {p} : avail'[q].entry = avail[q].entry
                /\ repositories' = repositories
          /\ RefreshFails(p) =>
                /\ Entries' = Entries
                /\ repositories' = repositories]_vars

\* C30 witness: the GitLab entry held {p1} and a refresh has replaced it by
\* {p2}, while the Bitbucket entry still holds what it held.
C30_Witness ==
    /\ avail["gitlab"].entry = [hasData |-> TRUE, data |-> {"p2"},
                                isInvalidated |-> FALSE]
    /\ avail["gitlab"].refresh = IdleRefresh
    /\ avail["bitbucket"].entry.data = {"p1"}
    /\ avail["bitbucket"].refresh.phase = "answered"
    /\ repositories = NoRepoData

====
